---- MODULE Spec2Model ----
(***************************************************************************)
(* Backend gateway of flight-monitor (the Cloudflare worker): rate-limit   *)
(* gate, OAuth2 token cache, upstream fetch cycle, geofence filtering and  *)
(* the snapshot cache of /api/map-flights.                                 *)
(*                                                                         *)
(* Time is Date.now() in milliseconds.  Synchronous stretches of a handler *)
(* are single actions; a request suspends only at its awaits (token        *)
(* endpoint, upstream feed, record store), where other requests and the    *)
(* clock may move.  Coordinates are in hundredths of a degree; all points  *)
(* of the model lie on the meridian of the region centre, where the        *)
(* Haversine distance is R * pi/180 * |dLat|.                              *)
(***************************************************************************)
EXTENDS Integers, Sequences, FiniteSets, TLC

\* ---------------------------------------------------------------- bounds
MaxTicks == 3
NumSlots == 2
\* aircraftRecordCache.maxSize (1000 in the source, scaled down)
maxSize == 10
\* the most calls of getAircraftInfoOnDemand that wait for the store at once
MaxPending == 2
\* the longest list of upstream reports handed to a filter directly
MaxReports == 3
\* the clock advances of the specification of the record cache
RecordTicks == 1

Slots == 1..NumSlots

\* ------------------------------------------------------ program constants
MAP_CHANGE_API_INTERVAL == 3000
DEFAULT_API_CALL_INTERVAL == 30000
TOKEN_EXPIRY_BUFFER == 5 * 60 * 1000
TOKEN_EXPIRY_TIME == 30 * 60 * 1000
FLIGHTS_CACHE_MAX_AGE == 30 * 1000
MapMaxFlights == 50
AIRCRAFT_RECORD_CACHE_MAX_AGE == 60 * 60 * 1000

\* Date.now() when the worker is loaded (any value far above every interval)
StartTime == 1000000000

\* null of an object-valued field (bounds, flight) and of the token string
NULL == <<>>
NO_TOKEN == "null"
\* the result of parseFloat on a string that is not a number
NaN == -999999

Deg(d) == d * 100

Abs(x) == IF x < 0 THEN -x ELSE x

\* A value of a JSON body as the handlers see it: its typeof and its
\* conversion to a number (NaN when it has none)
Num(n) == [type |-> "number", num |-> n]
Str(n) == [type |-> "string", num |-> n]
Undefined == [type |-> "undefined", num |-> NaN]
Null == [type |-> "null", num |-> 0]

DEFAULT_REGION ==
  [center |-> [lat |-> 3348, lon |-> -11170], radiusMiles |-> Num(3)]

\* ------------------------------------------------------------ input sets
\* tokens the provider hands out
TokenValues == {"tokA", "tokB"}

\* upstream position reports (icao24, latitude, longitude, on_ground)
RepIn == [icao24 |-> "a1", latitude |-> 3350, longitude |-> -11170, onGround |-> FALSE]
RepNear == [icao24 |-> "b2", latitude |-> 3390, longitude |-> -11170, onGround |-> FALSE]
RepGround == [icao24 |-> "c3", latitude |-> 3348, longitude |-> -11170, onGround |-> TRUE]

\* an airborne report on the equator
RepZero == [icao24 |-> "d4", latitude |-> 0, longitude |-> -11170, onGround |-> FALSE]

\* an airborne report south of the default region
RepSouth == [icao24 |-> "e5", latitude |-> 3320, longitude |-> -11170, onGround |-> FALSE]

\* data.states of an upstream answer
UpstreamLists == { <<>>, <<RepNear>>, <<RepGround, RepIn>> }

Box(n, s, e, w) == [north |-> n, south |-> s, east |-> e, west |-> w]

\* bounds of a /api/map-flights request after parseFloat (NULL: a parameter missing)
BoundsInputs ==
  { NULL,
    Box(3400, 3300, -11100, -11200),
    Box(3450, 3350, -11050, -11150),
    Box(3500, 3400, -11000, -11100),
    Box(NaN, 3300, -11100, -11200) }

\* rateLimitSeconds of a POST /api/rate-limit body
RateLimitInputs ==
  { [isNumber |-> FALSE, value |-> v] : v \in {0, 60} }
  \cup { [isNumber |-> TRUE, value |-> v] : v \in -1..301 }

\* icao24 addresses in lower case, and the objects aircraft/<icao24>.json that
\* the record store holds
KeyOrder ==
  << "k01", "k02", "k03", "k04", "k05", "k06", "k07", "k08", "k09", "k10",
     "k11", "k12", "k13" >>
LowerKeys == { KeyOrder[i] : i \in 1..Len(KeyOrder) }
ObjectKey(key) == << "aircraft/", key, ".json" >>
StoreObjects ==
  { ObjectKey(key) : key \in (LowerKeys \ {"k02", "k11", "k12"}) \cup {"a1", "e5"} }

\* icao24 arguments of a lookup: the lower-case keys and two in upper case
IcaoInputs == LowerKeys \cup {"K01", "K02"}

\* the body of a POST /api/region: parsed is FALSE when request.json()
\* throws, center is NULL when the body has none
RegionBody(lat, lon, radiusMiles) ==
  [parsed |-> TRUE, center |-> [lat |-> lat, lon |-> lon],
   radiusMiles |-> radiusMiles]

RadiusInputs ==
  { Undefined, Num(-1), Num(0), Num(1), Num(100), Num(101),
    Str(5), Str(-1), Str(NaN) }

RegionBodies ==
  { [parsed |-> FALSE, center |-> NULL, radiusMiles |-> Undefined],
    [parsed |-> TRUE, center |-> NULL, radiusMiles |-> Num(3)] }
  \cup { RegionBody(lat, lon, radiusMiles) :
           lat \in { Num(Deg(-90) - 1), Num(Deg(-90)), Num(0), Num(Deg(90)),
                     Num(Deg(91)), Str(3348), Undefined },
           lon \in { Num(Deg(-180) - 1), Num(Deg(-180)), Num(-11170),
                     Num(Deg(180)), Num(Deg(180) + 1), Undefined },
           radiusMiles \in RadiusInputs }

\* ------------------------------------------------------------------ state
VARIABLES
  now,                   \* Date.now()
  ticks,                 \* number of clock advances so far
  lastApiCall,
  lastMapChangeApiCall,
  API_CALL_INTERVAL,
  tokenCache,
  MONITORING_REGION,
  lastFlightsCache,
  req,                   \* the requests in flight, one per slot
  resp,                  \* the response written by the last step, if any
  sighted,               \* history: lastApiCall was set by a /api/check-flights
                         \* cycle that answered with a flight
  aircraftRecordCache,   \* aircraftRecordCache.records, in the order of its keys
  lookups,               \* the calls of getAircraftInfoOnDemand that wait for
                         \* the record store
  looked,                \* what the last step of a lookup returned, if any
  filterCall,            \* a call of the flight filters and its results
  page,                  \* the enrichment of a page of selected flights
  client                 \* the refs and the state of App of the frontend, its
                         \* polling timer and the calls of playChime so far

recordVars == << aircraftRecordCache, lookups >>

vars == << now, ticks, lastApiCall, lastMapChangeApiCall, API_CALL_INTERVAL,
           tokenCache, MONITORING_REGION, lastFlightsCache, req, resp, sighted,
           aircraftRecordCache, lookups, looked, filterCall, page, client >>

\* -------------------------------------------------------------- GeoMath
\* JavaScript truthiness of a number: 0 and NaN are falsy
Truthy(x) == x # 0 /\ x # NaN

\* Haversine distance in thousandths of a mile between two points of one
\* meridian: 3959 * pi / 180 = 69.098 miles per degree of latitude
calculateDistance(lat1, lon1, lat2, lon2) ==
  (Abs(lat2 - lat1) * 69098) \div 100

isPointInRegion(latitude, longitude, region) ==
  IF region = NULL \/ region.radiusMiles.type # "number"
  THEN FALSE
  ELSE IF latitude = NaN \/ longitude = NaN
       THEN FALSE
       ELSE calculateDistance(region.center.lat, region.center.lon,
                              latitude, longitude)
              <= region.radiusMiles.num * 1000

\* isPointInRegion on any values: the coordinates and the fields of the
\* region are values of JavaScript, which the arithmetic of
\* calculateDistance converts to numbers (.num); isPointInRegion above is
\* its case of numeric coordinates and a numeric center
isPointInRegionOfValues(latitude, longitude, region) ==
  IF region = NULL \/ region.center = NULL
     \/ region.radiusMiles.type # "number"
  THEN FALSE
  ELSE IF latitude.type # "number" \/ longitude.type # "number"
          \/ latitude.num = NaN \/ longitude.num = NaN
       THEN FALSE
       ELSE IF region.center.lat.num = NaN \/ region.center.lon.num = NaN
            THEN FALSE
            ELSE isPointInRegion(latitude.num, longitude.num,
                                 [center |-> [lat |-> region.center.lat.num,
                                              lon |-> region.center.lon.num],
                                  radiusMiles |-> region.radiusMiles])

isPointInBounds(latitude, longitude, bounds) ==
  IF bounds = NULL
  THEN FALSE
  ELSE IF ~Truthy(bounds.north) \/ ~Truthy(bounds.south)
          \/ ~Truthy(bounds.east) \/ ~Truthy(bounds.west)
       THEN FALSE
       ELSE LET lonInBounds ==
                  IF bounds.west <= bounds.east
                  THEN longitude >= bounds.west /\ longitude <= bounds.east
                  ELSE longitude >= bounds.west \/ longitude <= bounds.east
            IN  latitude >= bounds.south /\ latitude <= bounds.north /\ lonInBounds

\* ------------------------------------------------------- flight filtering
FlightData(flight, inRegion) ==
  [icao24 |-> flight.icao24, latitude |-> flight.latitude,
   longitude |-> flight.longitude, inRegion |-> inRegion]

\* variant: the scan of processFlights does not skip reports on the ground
RECURSIVE processFlightsWithGround(_, _)
processFlightsWithGround(flights, region) ==
  IF flights = <<>>
  THEN NULL
  ELSE LET flight == Head(flights)
       IN  IF Truthy(flight.latitude) /\ Truthy(flight.longitude)
              /\ isPointInRegion(flight.latitude, flight.longitude, region)
           THEN FlightData(flight, TRUE)
           ELSE processFlightsWithGround(Tail(flights), region)

\* the scan of processFlights up to the record lookup: the first airborne
\* report inside the region, NULL if there is none
RECURSIVE processFlights(_, _)
processFlights(flights, region) ==
  IF flights = <<>>
  THEN NULL
  ELSE LET flight == Head(flights)
       IN  IF flight.onGround = TRUE
           THEN processFlights(Tail(flights), region)
           ELSE IF Truthy(flight.latitude) /\ Truthy(flight.longitude)
                   /\ isPointInRegion(flight.latitude, flight.longitude, region)
                THEN FlightData(flight, TRUE)
                ELSE processFlights(Tail(flights), region)

\* variant: the scan stops one flight after maxFlights are collected
RECURSIVE SelectFlightsOneMore(_, _, _, _, _)
SelectFlightsOneMore(flights, maxFlights, bounds, region, flightsInBounds) ==
  IF flights = <<>>
  THEN flightsInBounds
  ELSE LET flight == Head(flights)
           inRegion == isPointInRegion(flight.latitude, flight.longitude, region)
           inArea == IF bounds # NULL
                     THEN isPointInBounds(flight.latitude, flight.longitude, bounds)
                     ELSE inRegion
           selected == flight.onGround # TRUE
                       /\ Truthy(flight.latitude) /\ Truthy(flight.longitude)
                       /\ inArea
           collected == IF selected
                        THEN Append(flightsInBounds, FlightData(flight, inRegion))
                        ELSE flightsInBounds
       IN  IF selected /\ Len(collected) > maxFlights
           THEN collected
           ELSE SelectFlightsOneMore(Tail(flights), maxFlights, bounds, region,
                                     collected)

\* the first pass of processMultipleFlights: the selected flights in
\* provider order, the scan stopping once maxFlights are collected
RECURSIVE SelectFlights(_, _, _, _, _)
SelectFlights(flights, maxFlights, bounds, region, flightsInBounds) ==
  IF flights = <<>>
  THEN flightsInBounds
  ELSE LET flight == Head(flights)
           inRegion == isPointInRegion(flight.latitude, flight.longitude, region)
           inArea == IF bounds # NULL
                     THEN isPointInBounds(flight.latitude, flight.longitude, bounds)
                     ELSE inRegion
           selected == flight.onGround # TRUE
                       /\ Truthy(flight.latitude) /\ Truthy(flight.longitude)
                       /\ inArea
           collected == IF selected
                        THEN Append(flightsInBounds, FlightData(flight, inRegion))
                        ELSE flightsInBounds
       IN  IF selected /\ Len(collected) >= maxFlights
           THEN collected
           ELSE SelectFlights(Tail(flights), maxFlights, bounds, region, collected)

processMultipleFlights(flights, maxFlights, bounds, region) ==
  SelectFlights(flights, maxFlights, bounds, region, <<>>)

\* ------------------------------------------------------------- requests
\* A slot holds one request of the fetch handler, from its arrival to its
\* response.  pc is the await the request is suspended at.
IdleReq ==
  [ kind |-> "none",           \* "check": /api/check-flights, "map": /api/map-flights
    pc |-> "idle",
    isMapChange |-> FALSE,     \* mapChanged=true of /api/map-flights
    bounds |-> NULL,
    now |-> 0,                 \* const now of fetchOpenSkyData
    tokenNow |-> 0,            \* const now of the pending getAccessToken
    accessToken |-> NO_TOKEN,  \* bearer token of the pending upstream request
    picked |-> NULL,           \* flight(s) selected, waiting for their records
    \* what the cycle did
    passedGate |-> FALSE,
    usedCachedToken |-> FALSE,
    tokenGrants |-> 0,
    upstreamRequests |-> 0,
    grantFailed |-> FALSE,
    unauthorized |-> {},       \* the tokens that the feed answered 401 to
    fetched |-> "none",        \* what fetchOpenSkyData returned: "null" or "states"
    \* the response
    status |-> 0,
    flight |-> NULL,
    flights |-> <<>>,
    region |-> NULL,           \* the region of a /api/region response
    error |-> "",              \* the error field of the response body
    rateLimitSeconds |-> 0 ]   \* of a /api/rate-limit response

\* no lookup has returned in the last step
NoLookup == [key |-> "", step |-> "none", value |-> NULL, storeRequests |-> 0]

\* the flight filters have not been called
NoCall == [flights |-> <<>>, maxFlights |-> 0, bounds |-> NULL, region |-> NULL,
           returned |-> FALSE, called |-> "none", flight |-> NULL,
           selected |-> <<>>,
           latitude |-> 0, longitude |-> 0, result |-> FALSE]

\* no page of flights is being enriched
NoPage == [pc |-> "idle", flightsInBounds |-> <<>>, lookups |-> <<>>,
           result |-> <<>>]

\* App when it is mounted: useState(null), useState(false), useRef(null);
\* a ref that holds no timestamp is 0, one that holds no id is "null"
NoClient ==
  [pc |-> "idle", chimeEnabled |-> FALSE, flightData |-> NULL,
   previousFlightIdRef |-> "null", flightFirstDetectedRef |-> 0,
   lastDisplayedFlightRef |-> NULL, due |-> 0, polledAt |-> 0, polls |-> 0,
   chimes |-> 0, detections |-> 0]

\* the module state of the worker when it is loaded, no request in flight
Loaded ==
  /\ now = StartTime
  /\ ticks = 0
  /\ lastApiCall = 0
  /\ lastMapChangeApiCall = 0
  /\ API_CALL_INTERVAL = DEFAULT_API_CALL_INTERVAL
  /\ tokenCache = [token |-> NO_TOKEN, expiresAt |-> 0]
  /\ MONITORING_REGION = DEFAULT_REGION
  /\ lastFlightsCache = [flights |-> <<>>, timestamp |-> 0, bounds |-> NULL]
  /\ req = [r \in Slots |-> IdleReq]
  /\ resp = IdleReq
  /\ sighted = FALSE
  /\ aircraftRecordCache = <<>>
  /\ lookups = <<>>
  /\ looked = NoLookup
  /\ page = NoPage

Init == Loaded /\ filterCall = NoCall /\ client = NoClient

\* ----------------------------------------------------------------- clock
\* The instants at which a comparison of the code changes its outcome: the
\* gate of either category opens, the snapshot becomes too old, the cached
\* token enters its refresh buffer
GateDeadlines ==
  { lastApiCall + API_CALL_INTERVAL,
    lastMapChangeApiCall + MAP_CHANGE_API_INTERVAL }
SnapshotDeadlines == { lastFlightsCache.timestamp + FLIGHTS_CACHE_MAX_AGE }
TokenDeadlines == { tokenCache.expiresAt - TOKEN_EXPIRY_BUFFER }

\* the instants the clock may move to: a deadline ahead or the millisecond
\* before it; the next millisecond when no deadline is ahead
Instants(deadlines) ==
  LET ahead == { t \in deadlines \cup {d - 1 : d \in deadlines} : t > now }
  IN  IF ahead = {} THEN {now + 1} ELSE ahead

\* Date.now() moves on
Advance(deadlines) ==
  /\ ticks < MaxTicks
  /\ \E t \in Instants(deadlines) : now' = t
  /\ ticks' = ticks + 1
  /\ UNCHANGED << lastApiCall, lastMapChangeApiCall, API_CALL_INTERVAL,
                  tokenCache, MONITORING_REGION, lastFlightsCache, req,
                  sighted, recordVars, filterCall, page, client >>
  /\ resp' = IdleReq
  /\ looked' = NoLookup

\* ----------------------------------------------------------- RateLimiter
\* the gate of fetchOpenSkyData
RateLimited(isMapChange, t) ==
  LET rateLimitInterval == IF isMapChange THEN MAP_CHANGE_API_INTERVAL
                                          ELSE API_CALL_INTERVAL
      lastCallTime == IF isMapChange THEN lastMapChangeApiCall ELSE lastApiCall
  IN  t - lastCallTime < rateLimitInterval

\* variant: one timestamp shared by both categories
StampedNormalShared(isMapChange, t) == t

\* lastApiCall after the category's timestamp is set
StampedNormal(isMapChange, t) == IF isMapChange THEN lastApiCall ELSE t

\* lastMapChangeApiCall after the category's timestamp is set
StampedMapChange(isMapChange, t) == IF isMapChange THEN t ELSE lastMapChangeApiCall

\* variant: the upper limit of the interval is not checked
RateLimitInvalidNoCeiling(body) ==
  ~body.isNumber \/ body.value < 1

\* typeof rateLimitSeconds !== 'number' || rateLimitSeconds < 1 ||
\* rateLimitSeconds > 300
RateLimitInvalid(body) ==
  ~body.isNumber \/ body.value < 1 \/ body.value > 300

\* POST /api/rate-limit
PostRateLimit(body) ==
  /\ IF RateLimitInvalid(body)
     THEN /\ UNCHANGED API_CALL_INTERVAL
          /\ resp' = [IdleReq EXCEPT !.kind = "setRateLimit", !.pc = "done",
                                     !.status = 400,
                                     !.error = "Invalid rate limit"]
     ELSE /\ API_CALL_INTERVAL' = body.value * 1000
          /\ resp' = [IdleReq EXCEPT !.kind = "setRateLimit", !.pc = "done",
                                     !.status = 200,
                                     !.rateLimitSeconds = body.value]
  /\ UNCHANGED << now, ticks, lastApiCall, lastMapChangeApiCall, tokenCache,
                  MONITORING_REGION, lastFlightsCache, req, sighted,
                  recordVars, looked, filterCall, page, client >>

\* GET /api/rate-limit
GetRateLimit ==
  /\ resp' = [IdleReq EXCEPT !.kind = "getRateLimit", !.pc = "done",
                             !.status = 200,
                             !.rateLimitSeconds = API_CALL_INTERVAL \div 1000]
  /\ UNCHANGED << now, ticks, lastApiCall, lastMapChangeApiCall,
                  API_CALL_INTERVAL, tokenCache, MONITORING_REGION,
                  lastFlightsCache, req, sighted, recordVars, looked,
                  filterCall, page, client >>

\* ----------------------------------------------------------- RegionStore
\* the truthiness of a value of a JSON body (a string of the model is not
\* empty)
JsTruthy(v) ==
  v.type = "string" \/ (v.type = "number" /\ v.num # 0 /\ v.num # NaN)

\* v <= n and v > n after the conversion of v to a number: false on NaN
JsLessEq(v, n) == v.num # NaN /\ v.num <= n
JsGreater(v, n) == v.num # NaN /\ v.num > n

\* variant: the center is written before the radius is validated
RegionUpdateInPlace(body, region) ==
  IF ~body.parsed
  THEN [status |-> 400, region |-> region]
  ELSE IF body.center = NULL \/ body.center.lat.type # "number"
          \/ body.center.lon.type # "number"
       THEN [status |-> 400, region |-> region]
       ELSE IF body.center.lat.num < Deg(-90) \/ body.center.lat.num > Deg(90)
               \/ body.center.lon.num < Deg(-180)
               \/ body.center.lon.num > Deg(180)
            THEN [status |-> 400, region |-> region]
            ELSE LET radius == IF JsTruthy(body.radiusMiles)
                               THEN body.radiusMiles ELSE Num(3)
                     center == [lat |-> body.center.lat.num,
                                lon |-> body.center.lon.num]
                 IN  IF JsLessEq(radius, 0) \/ JsGreater(radius, 100)
                     THEN [status |-> 400,
                           region |-> [region EXCEPT !.center = center]]
                     ELSE [status |-> 200,
                           region |-> [center |-> center,
                                       radiusMiles |-> radius]]

\* the validation of POST /api/region: the status of the response and the
\* region afterwards
RegionUpdate(body, region) ==
  IF ~body.parsed
  THEN [status |-> 400, region |-> region]
  ELSE IF body.center = NULL \/ body.center.lat.type # "number"
          \/ body.center.lon.type # "number"
       THEN [status |-> 400, region |-> region]
       ELSE IF body.center.lat.num < Deg(-90) \/ body.center.lat.num > Deg(90)
               \/ body.center.lon.num < Deg(-180)
               \/ body.center.lon.num > Deg(180)
            THEN [status |-> 400, region |-> region]
            ELSE LET radius == IF JsTruthy(body.radiusMiles)
                               THEN body.radiusMiles ELSE Num(3)
                 IN  IF JsLessEq(radius, 0) \/ JsGreater(radius, 100)
                     THEN [status |-> 400, region |-> region]
                     ELSE [status |-> 200,
                           region |-> [center |-> [lat |-> body.center.lat.num,
                                                   lon |-> body.center.lon.num],
                                       radiusMiles |-> radius]]

\* POST /api/region
PostRegion(body) ==
  LET update == RegionUpdate(body, MONITORING_REGION)
  IN  /\ MONITORING_REGION' = update.region
      /\ resp' = [IdleReq EXCEPT !.kind = "setRegion", !.pc = "done",
                                 !.status = update.status,
                                 !.region = IF update.status = 200
                                            THEN update.region ELSE NULL]
      /\ UNCHANGED << now, ticks, lastApiCall, lastMapChangeApiCall,
                      API_CALL_INTERVAL, tokenCache, lastFlightsCache, req,
                      sighted, recordVars, looked, filterCall, page, client >>

\* GET /api/region
GetRegion ==
  /\ resp' = [IdleReq EXCEPT !.kind = "getRegion", !.pc = "done",
                             !.status = 200, !.region = MONITORING_REGION]
  /\ UNCHANGED << now, ticks, lastApiCall, lastMapChangeApiCall,
                  API_CALL_INTERVAL, tokenCache, MONITORING_REGION,
                  lastFlightsCache, req, sighted, recordVars, looked,
                  filterCall, page, client >>

\* ----------------------------------------------------------- TokenBroker
\* variant: a token with exactly the buffer left still counts as valid
TokenCacheValidAtBuffer(t) ==
  tokenCache.token # NO_TOKEN /\ tokenCache.expiresAt >= (t + TOKEN_EXPIRY_BUFFER)

\* the cached token is returned without a request to the token endpoint
TokenCacheValid(t) ==
  tokenCache.token # NO_TOKEN /\ tokenCache.expiresAt > (t + TOKEN_EXPIRY_BUFFER)

\* ---------------------------------------------------- AircraftRecordCache
\* icao24.toLowerCase()
toLowerCase(icao24) ==
  CASE icao24 = "K01" -> "k01"
    [] icao24 = "K02" -> "k02"
    [] OTHER -> icao24

\* Object.keys(aircraftRecordCache.records)
CacheKeys(cache) == { cache[i].key : i \in 1..Len(cache) }

\* aircraftRecordCache.records[key], of a key of the cache
CacheEntry(cache, key) ==
  cache[CHOOSE i \in 1..Len(cache) : cache[i].key = key]

\* aircraftRecordCache.records[key] = {data, timestamp}: an entry of the key
\* is overwritten in its place, a new key comes last
CachePut(cache, key, data, timestamp) ==
  LET entry == [key |-> key, data |-> data, timestamp |-> timestamp]
  IN  IF key \in CacheKeys(cache)
      THEN [i \in 1..Len(cache) |->
              IF cache[i].key = key THEN entry ELSE cache[i]]
      ELSE Append(cache, entry)

\* the position of entry i after the stable sort by timestamp
SortedPosition(cache, i) ==
  Cardinality({ j \in 1..Len(cache) :
                  \/ cache[j].timestamp < cache[i].timestamp
                  \/ cache[j].timestamp = cache[i].timestamp /\ j < i }) + 1

\* the cache without the first entriesToRemove entries of that sort
RECURSIVE CacheWithoutOldest(_, _, _)
CacheWithoutOldest(cache, entriesToRemove, i) ==
  IF i > Len(cache)
  THEN <<>>
  ELSE LET rest == CacheWithoutOldest(cache, entriesToRemove, i + 1)
       IN  IF SortedPosition(cache, i) <= entriesToRemove
           THEN rest
           ELSE <<cache[i]>> \o rest

\* the cache after a record that the store returned is cached: when the
\* cache is full and the key is new, the oldest 10% of the entries go first
CacheInsert(cache, key, data, timestamp) ==
  LET entriesToRemove == (Len(cache) * 1) \div 10
      kept == IF Len(cache) >= maxSize /\ key \notin CacheKeys(cache)
              THEN CacheWithoutOldest(cache, entriesToRemove, 1)
              ELSE cache
  IN  CachePut(kept, key, data, timestamp)

\* variant: a cached "not found" is looked up in the store again
CacheHitOnRecord(cache, key, t) ==
  /\ key \in CacheKeys(cache)
  /\ CacheEntry(cache, key).data # NULL
  /\ t - CacheEntry(cache, key).timestamp < AIRCRAFT_RECORD_CACHE_MAX_AGE

\* the entry of the key is returned without a request to the store
CacheHit(cache, key, t) ==
  /\ key \in CacheKeys(cache)
  /\ t - CacheEntry(cache, key).timestamp < AIRCRAFT_RECORD_CACHE_MAX_AGE

\* getAircraftInfoOnDemand(r2Bucket, icao24) from its call to its return
\* from the cache or to its await of r2Bucket.get
Lookup(icao24) ==
  LET normalizedIcao24 == toLowerCase(icao24)
  IN  /\ IF CacheHit(aircraftRecordCache, normalizedIcao24, now)
         THEN /\ looked' = [key |-> normalizedIcao24, step |-> "hit",
                            value |-> CacheEntry(aircraftRecordCache,
                                                 normalizedIcao24).data,
                            storeRequests |-> 0]
              /\ UNCHANGED lookups
         ELSE /\ Len(lookups) < MaxPending
              /\ lookups' = Append(lookups,
                                   [key |-> normalizedIcao24, now |-> now,
                                    objectKey |-> ObjectKey(normalizedIcao24)])
              /\ looked' = [key |-> normalizedIcao24, step |-> "get",
                            value |-> NULL, storeRequests |-> 1]
      /\ resp' = IdleReq
      /\ UNCHANGED << now, ticks, lastApiCall, lastMapChangeApiCall,
                      API_CALL_INTERVAL, tokenCache, MONITORING_REGION,
                      lastFlightsCache, req, sighted, aircraftRecordCache,
                      filterCall, page, client >>

\* the pending lookups without the i-th
WithoutLookup(i) ==
  SubSeq(lookups, 1, i - 1) \o SubSeq(lookups, i + 1, Len(lookups))

\* r2Bucket.get of the i-th pending lookup returns: the object when the
\* store has it, null when it has not
StoreAnswered(i) ==
  LET l == lookups[i]
      aircraftInfo == [icao24 |-> l.key]
  IN  /\ IF l.objectKey \in StoreObjects
         THEN /\ aircraftRecordCache' =
                   CacheInsert(aircraftRecordCache, l.key, aircraftInfo, l.now)
              /\ looked' = [key |-> l.key, step |-> "found",
                            value |-> aircraftInfo, storeRequests |-> 0]
         ELSE /\ aircraftRecordCache' =
                   CachePut(aircraftRecordCache, l.key, NULL, l.now)
              /\ looked' = [key |-> l.key, step |-> "notFound",
                            value |-> NULL, storeRequests |-> 0]
      /\ lookups' = WithoutLookup(i)
      /\ resp' = IdleReq
      /\ UNCHANGED << now, ticks, lastApiCall, lastMapChangeApiCall,
                      API_CALL_INTERVAL, tokenCache, MONITORING_REGION,
                      lastFlightsCache, req, sighted, filterCall, page,
                      client >>

\* variant: a failing lookup caches null like a missing object
StoreFailedCachesNull(i) ==
  /\ looked' = [key |-> lookups[i].key, step |-> "error", value |-> NULL,
                storeRequests |-> 0]
  /\ aircraftRecordCache' =
       CachePut(aircraftRecordCache, lookups[i].key, NULL, lookups[i].now)
  /\ lookups' = WithoutLookup(i)
  /\ resp' = IdleReq
  /\ UNCHANGED << now, ticks, lastApiCall, lastMapChangeApiCall,
                  API_CALL_INTERVAL, tokenCache, MONITORING_REGION,
                  lastFlightsCache, req, sighted, filterCall, page, client >>

\* r2Bucket.get or the parse of the object throws: the lookup returns null
\* from its catch and caches nothing
StoreFailed(i) ==
  /\ looked' = [key |-> lookups[i].key, step |-> "error", value |-> NULL,
                storeRequests |-> 0]
  /\ lookups' = WithoutLookup(i)
  /\ resp' = IdleReq
  /\ UNCHANGED << now, ticks, lastApiCall, lastMapChangeApiCall,
                  API_CALL_INTERVAL, tokenCache, MONITORING_REGION,
                  lastFlightsCache, req, sighted, aircraftRecordCache,
                  filterCall, page, client >>

\* ------------------------------------------- enrichment of a page of flights
\* the steps of the enrichment leave the rest of the worker alone
PageFrame ==
  /\ resp' = IdleReq
  /\ looked' = NoLookup
  /\ UNCHANGED << now, ticks, lastApiCall, lastMapChangeApiCall,
                  API_CALL_INTERVAL, tokenCache, MONITORING_REGION,
                  lastFlightsCache, req, sighted, lookups, filterCall, client >>

\* getAircraftInfoOnDemand(r2Bucket, icao24) of a page, from its call to its
\* return from the cache or to its await of r2Bucket.get
PageLookup(icao24) ==
  LET normalizedIcao24 == toLowerCase(icao24)
  IN  IF CacheHit(aircraftRecordCache, normalizedIcao24, now)
      THEN [icao24 |-> icao24, key |-> normalizedIcao24, now |-> now,
            step |-> "hit",
            info |-> CacheEntry(aircraftRecordCache, normalizedIcao24).data]
      ELSE [icao24 |-> icao24, key |-> normalizedIcao24, now |-> now,
            step |-> "get", info |-> NULL]

\* processMultipleFlights(flights, 50, bounds, r2Bucket) with a bucket, from
\* its call to its await of Promise.all: the first pass, then one lookup
\* per selected flight, each run to its own await
EnrichStarted(flights, bounds) ==
  LET flightsInBounds == processMultipleFlights(flights, MapMaxFlights, bounds,
                                                MONITORING_REGION)
  IN  /\ page.pc \in {"idle", "returned"}
      /\ page' = IF flightsInBounds = <<>>
                 THEN [NoPage EXCEPT !.pc = "returned"]
                 ELSE [pc |-> "awaitAll",
                       flightsInBounds |-> flightsInBounds,
                       lookups |-> [i \in 1..Len(flightsInBounds) |->
                                      PageLookup(flightsInBounds[i].icao24)],
                       result |-> <<>>]
      /\ UNCHANGED aircraftRecordCache
      /\ PageFrame

\* r2Bucket.get of the i-th lookup of the page returns: the object when the
\* store has it, null when it has not
PageStoreAnswered(i) ==
  LET l == page.lookups[i]
      aircraftInfo == [icao24 |-> l.key]
      found == ObjectKey(l.key) \in StoreObjects
  IN  /\ page.pc = "awaitAll" /\ l.step = "get"
      /\ aircraftRecordCache' =
           IF found
           THEN CacheInsert(aircraftRecordCache, l.key, aircraftInfo, l.now)
           ELSE CachePut(aircraftRecordCache, l.key, NULL, l.now)
      /\ page' = [page EXCEPT
           !.lookups[i].step = IF found THEN "found" ELSE "notFound",
           !.lookups[i].info = IF found THEN aircraftInfo ELSE NULL]
      /\ PageFrame

\* the read or the parse of the object fails
StoreFailures == {"readError", "parseError"}

\* variant: the error of the store leaves the lookup and rejects the
\* aggregate, and the page is returned without its flights
PageStoreFailedRejects(i, failure) ==
  /\ page.pc = "awaitAll" /\ page.lookups[i].step = "get"
  /\ page' = [page EXCEPT !.pc = "returned",
                          !.lookups[i].step = "error", !.result = <<>>]
  /\ UNCHANGED aircraftRecordCache
  /\ PageFrame

\* r2Bucket.get or the parse of the object of the i-th lookup throws: the
\* lookup returns null from its catch and caches nothing
PageStoreFailed(i, failure) ==
  /\ page.pc = "awaitAll" /\ page.lookups[i].step = "get"
  /\ page' = [page EXCEPT !.lookups[i].step = "error",
                          !.lookups[i].info = NULL]
  /\ UNCHANGED aircraftRecordCache
  /\ PageFrame

\* infoMap.get(key): the result of the last lookup of the key
InfoMap(results, key) ==
  LET last == CHOOSE i \in 1..Len(results) :
                /\ results[i].key = key
                /\ \A j \in 1..Len(results) : results[j].key = key => j <= i
  IN  results[last].info

\* Promise.all resolves when every lookup has returned; the flights are
\* enriched from infoMap and the page is returned
PromiseAllResolved ==
  /\ page.pc = "awaitAll"
  /\ \A i \in 1..Len(page.lookups) : page.lookups[i].step # "get"
  /\ page' = [page EXCEPT
       !.pc = "returned",
       !.result = [i \in 1..Len(page.flightsInBounds) |->
                     [flight |-> page.flightsInBounds[i],
                      aircraftInfo |->
                        InfoMap(page.lookups,
                                toLowerCase(page.flightsInBounds[i].icao24))]]]
  /\ UNCHANGED aircraftRecordCache
  /\ PageFrame

\* --------------------------------------------- FlightGateway: the handlers
\* variant: bounds exactly one degree apart count as similar
NearInclusive(a, b) == a # NaN /\ b # NaN /\ Abs(a - b) <= Deg(1)

\* Math.abs(a - b) < 1 on two parsed bounds (false when either is NaN)
Near(a, b) == a # NaN /\ b # NaN /\ Abs(a - b) < Deg(1)

\* boundsMatch of the /api/map-flights fallback
BoundsMatch(bounds, cached) ==
  \/ bounds = NULL
  \/ cached = NULL
  \/ /\ Near(bounds.north, cached.north)
     /\ Near(bounds.south, cached.south)
     /\ Near(bounds.east, cached.east)
     /\ Near(bounds.west, cached.west)

\* variant: a snapshot of exactly the maximum age is still served
ServeSnapshotAtMaxAge(bounds, t) ==
  /\ Len(lastFlightsCache.flights) > 0
  /\ t - lastFlightsCache.timestamp <= FLIGHTS_CACHE_MAX_AGE
  /\ BoundsMatch(bounds, lastFlightsCache.bounds)

\* the snapshot is served by the fallback of /api/map-flights
ServeSnapshot(bounds, t) ==
  /\ Len(lastFlightsCache.flights) > 0
  /\ t - lastFlightsCache.timestamp < FLIGHTS_CACHE_MAX_AGE
  /\ BoundsMatch(bounds, lastFlightsCache.bounds)

\* variant: /api/map-flights answers 503 when its fallback has no snapshot
\* to serve
HandlerOnNullUnavailable(q) ==
  IF q.kind = "check"
  THEN [q EXCEPT !.pc = "done", !.fetched = "null", !.status = 200,
                 !.flight = NULL]
  ELSE IF ServeSnapshot(q.bounds, now)
       THEN [q EXCEPT !.pc = "done", !.fetched = "null", !.status = 200,
                      !.flights = lastFlightsCache.flights]
       ELSE [q EXCEPT !.pc = "done", !.fetched = "null", !.status = 503,
                      !.flights = <<>>]

\* the handler after fetchOpenSkyData returned null: /api/check-flights
\* answers flight null, /api/map-flights answers from the fallback
HandlerOnNull(q) ==
  IF q.kind = "check"
  THEN [q EXCEPT !.pc = "done", !.fetched = "null", !.status = 200,
                 !.flight = NULL]
  ELSE [q EXCEPT !.pc = "done", !.fetched = "null", !.status = 200,
                 !.flights = IF ServeSnapshot(q.bounds, now)
                             THEN lastFlightsCache.flights
                             ELSE <<>>]

\* variant: the flight of processFlights is answered without verification
VerifiedFlightUnchecked(flight) == flight

\* the verification of /api/check-flights after processFlights
VerifiedFlight(flight) ==
  IF flight # NULL
     /\ ~isPointInRegion(flight.latitude, flight.longitude, MONITORING_REGION)
  THEN NULL
  ELSE flight

\* the handler after fetchOpenSkyData returned the upstream states, up to
\* the await of the record lookups
HandlerOnStates(q, states) ==
  IF q.kind = "check"
  THEN LET flight == processFlights(states, MONITORING_REGION)
       IN  IF flight # NULL
           THEN [q EXCEPT !.pc = "awaitRecords", !.fetched = "states",
                          !.picked = flight]
           ELSE [q EXCEPT !.pc = "done", !.fetched = "states", !.status = 200,
                          !.flight = VerifiedFlight(flight)]
  ELSE LET selected == processMultipleFlights(states, MapMaxFlights, q.bounds,
                                              MONITORING_REGION)
       IN  IF selected # <<>>
           THEN [q EXCEPT !.pc = "awaitRecords", !.fetched = "states",
                          !.picked = selected]
           ELSE [q EXCEPT !.pc = "done", !.fetched = "states", !.status = 200,
                          !.flights = selected]

\* the handler after the record lookups of its flights have completed
HandlerOnRecords(q) ==
  IF q.kind = "check"
  THEN [q EXCEPT !.pc = "done", !.status = 200,
                 !.flight = VerifiedFlight(q.picked)]
  ELSE [q EXCEPT !.pc = "done", !.status = 200, !.picked = NULL,
                 !.flights = q.picked]

\* variant: the snapshot is stamped with the time the request read the
\* clock for its gate
SnapshotAfterStampedAtGate(q) ==
  IF q.kind = "map" /\ q.pc = "done" /\ q.fetched = "states"
  THEN [flights |-> q.flights, timestamp |-> q.now, bounds |-> q.bounds]
  ELSE lastFlightsCache

\* variant: every finished /api/map-flights request stores its flights
SnapshotAfterAnyMap(q) ==
  IF q.kind = "map" /\ q.pc = "done"
  THEN [flights |-> q.flights, timestamp |-> now, bounds |-> q.bounds]
  ELSE lastFlightsCache

\* lastFlightsCache after a step that leaves the request as q: a
\* /api/map-flights request that finishes with fetched states stores them
SnapshotAfter(q) ==
  IF q.kind = "map" /\ q.pc = "done" /\ q.fetched = "states"
  THEN [flights |-> q.flights, timestamp |-> now, bounds |-> q.bounds]
  ELSE lastFlightsCache

\* fetchOpenSkyData from its call to its first await (or to its return, when
\* the gate is closed): the gate, then getAccessToken's look at the cache
fetchOpenSkyData(q) ==
  IF RateLimited(q.isMapChange, q.now)
  THEN HandlerOnNull(q)
  ELSE IF TokenCacheValid(q.now)
       THEN [q EXCEPT !.pc = "awaitUpstream", !.passedGate = TRUE,
                      !.usedCachedToken = TRUE,
                      !.accessToken = tokenCache.token,
                      !.upstreamRequests = 1]
       ELSE [q EXCEPT !.pc = "awaitToken", !.passedGate = TRUE,
                      !.tokenNow = q.now, !.tokenGrants = 1]

\* a step of request r that leaves it as q and touches nothing but the
\* snapshot; a request that is done leaves its slot and its record is the
\* response
RequestStep(r, q) ==
  /\ req' = [req EXCEPT ![r] = IF q.pc = "done" THEN IdleReq ELSE q]
  /\ resp' = IF q.pc = "done" THEN q ELSE IdleReq
  /\ sighted' = IF q.pc = "done" /\ q.kind = "check" /\ q.flight # NULL
                    /\ lastApiCall' = q.now
                 THEN TRUE
                 ELSE IF lastApiCall' # lastApiCall THEN FALSE ELSE sighted
  /\ lastFlightsCache' = SnapshotAfter(q)
  /\ UNCHANGED << now, ticks, API_CALL_INTERVAL, MONITORING_REGION,
                  recordVars, looked, filterCall, page, client >>

\* a new request takes the first slot that holds none
FreeSlot(r) ==
  /\ req[r].pc = "idle"
  /\ \A r2 \in Slots : r2 < r => req[r2].pc # "idle"

\* GET /api/check-flights arrives
CheckFlights(r) ==
  /\ FreeSlot(r)
  /\ UNCHANGED << lastApiCall, lastMapChangeApiCall, tokenCache >>
  /\ RequestStep(r, fetchOpenSkyData(
       [IdleReq EXCEPT !.kind = "check", !.now = now]))

\* GET /api/map-flights arrives
MapFlights(r, bounds, mapChanged) ==
  /\ FreeSlot(r)
  /\ UNCHANGED << lastApiCall, lastMapChangeApiCall, tokenCache >>
  /\ RequestStep(r, fetchOpenSkyData(
       [IdleReq EXCEPT !.kind = "map", !.bounds = bounds,
                       !.isMapChange = mapChanged, !.now = now]))

\* the secrets of the environment of a request; a secret that is not set
\* reads as the empty string
Envs ==
  { [OPENSKY_CLIENT_ID |-> id, OPENSKY_CLIENT_SECRET |-> secret] :
      id \in {"", "id"}, secret \in {"", "secret"} }

\* variant: only an environment without both secrets counts as not configured
CredentialsMissingBoth(env) ==
  env.OPENSKY_CLIENT_ID = "" /\ env.OPENSKY_CLIENT_SECRET = ""

\* !clientId || !clientSecret
CredentialsMissing(env) ==
  env.OPENSKY_CLIENT_ID = "" \/ env.OPENSKY_CLIENT_SECRET = ""

\* the response of a handler that finds the credentials missing
NotConfigured(kind, bounds, mapChanged) ==
  [IdleReq EXCEPT !.kind = kind, !.pc = "done", !.bounds = bounds,
                  !.isMapChange = mapChanged, !.status = 200,
                  !.flight = NULL, !.flights = <<>>,
                  !.error = "OpenSky credentials not configured"]

\* GET /api/check-flights arrives in environment env
CheckFlightsEnv(r, env) ==
  IF CredentialsMissing(env)
  THEN /\ FreeSlot(r)
       /\ UNCHANGED << lastApiCall, lastMapChangeApiCall, tokenCache >>
       /\ RequestStep(r, NotConfigured("check", NULL, FALSE))
  ELSE CheckFlights(r)

\* GET /api/map-flights arrives in environment env
MapFlightsEnv(r, bounds, mapChanged, env) ==
  IF CredentialsMissing(env)
  THEN /\ FreeSlot(r)
       /\ UNCHANGED << lastApiCall, lastMapChangeApiCall, tokenCache >>
       /\ RequestStep(r, NotConfigured("map", bounds, mapChanged))
  ELSE MapFlights(r, bounds, mapChanged)

\* variant: the token is stamped with the time its grant arrives
TokenGrantedStampedAtGrant(r, accessToken) ==
  /\ req[r].pc \in {"awaitToken", "awaitToken2"}
  /\ tokenCache' = [token |-> accessToken,
                    expiresAt |-> now + TOKEN_EXPIRY_TIME]
  /\ UNCHANGED << lastApiCall, lastMapChangeApiCall >>
  /\ RequestStep(r, [req[r] EXCEPT
       !.pc = IF req[r].pc = "awaitToken" THEN "awaitUpstream" ELSE "awaitRetry",
       !.accessToken = accessToken,
       !.upstreamRequests = @ + 1])

\* the token endpoint answers with an access_token
TokenGranted(r, accessToken) ==
  /\ req[r].pc \in {"awaitToken", "awaitToken2"}
  /\ tokenCache' = [token |-> accessToken,
                    expiresAt |-> req[r].tokenNow + TOKEN_EXPIRY_TIME]
  /\ UNCHANGED << lastApiCall, lastMapChangeApiCall >>
  /\ RequestStep(r, [req[r] EXCEPT
       !.pc = IF req[r].pc = "awaitToken" THEN "awaitUpstream" ELSE "awaitRetry",
       !.accessToken = accessToken,
       !.upstreamRequests = @ + 1])

\* the grant fails: non-2xx, no access_token in the body, or the request
\* throws
GrantFailures == {"nonOk", "noAccessToken", "networkError"}

\* variant: the error of the grant is not caught by the fetch cycle and the
\* request ends with status 500
TokenGrantFailedThrown(r, failure) ==
  /\ req[r].pc \in {"awaitToken", "awaitToken2"}
  /\ tokenCache' = [token |-> NO_TOKEN, expiresAt |-> 0]
  /\ UNCHANGED << lastApiCall, lastMapChangeApiCall >>
  /\ RequestStep(r, [HandlerOnNull([req[r] EXCEPT !.grantFailed = TRUE])
                       EXCEPT !.status = 500])

TokenGrantFailed(r, failure) ==
  /\ req[r].pc \in {"awaitToken", "awaitToken2"}
  /\ tokenCache' = [token |-> NO_TOKEN, expiresAt |-> 0]
  /\ UNCHANGED << lastApiCall, lastMapChangeApiCall >>
  /\ RequestStep(r, HandlerOnNull([req[r] EXCEPT !.grantFailed = TRUE]))

\* the upstream feed answers 2xx with data.states = states
UpstreamOk(r, states) ==
  /\ req[r].pc = "awaitUpstream"
  /\ lastApiCall' = StampedNormal(req[r].isMapChange, req[r].now)
  /\ lastMapChangeApiCall' = StampedMapChange(req[r].isMapChange, req[r].now)
  /\ UNCHANGED tokenCache
  /\ RequestStep(r, HandlerOnStates(req[r], states))

\* the upstream feed answers 401: the cache is cleared and getAccessToken
\* asks for a new token
UpstreamUnauthorized(r) ==
  /\ req[r].pc = "awaitUpstream"
  /\ lastApiCall' = StampedNormal(req[r].isMapChange, req[r].now)
  /\ lastMapChangeApiCall' = StampedMapChange(req[r].isMapChange, req[r].now)
  /\ tokenCache' = [token |-> NO_TOKEN, expiresAt |-> 0]
  /\ RequestStep(r, [req[r] EXCEPT
       !.pc = "awaitToken2", !.tokenNow = now, !.tokenGrants = @ + 1,
       !.unauthorized = @ \cup {req[r].accessToken}])

\* the upstream feed answers another non-2xx status, or 2xx with a body
\* that is not JSON
UpstreamErrors == {"nonOk", "badJson"}

\* variant: the error of a non-2xx answer leaves the handler and the request
\* ends with status 500
UpstreamErrorThrown(r, error) ==
  /\ req[r].pc = "awaitUpstream"
  /\ lastApiCall' = StampedNormal(req[r].isMapChange, req[r].now)
  /\ lastMapChangeApiCall' = StampedMapChange(req[r].isMapChange, req[r].now)
  /\ UNCHANGED tokenCache
  /\ RequestStep(r, [HandlerOnNull(req[r]) EXCEPT !.status = 500])

UpstreamError(r, error) ==
  /\ req[r].pc = "awaitUpstream"
  /\ lastApiCall' = StampedNormal(req[r].isMapChange, req[r].now)
  /\ lastMapChangeApiCall' = StampedMapChange(req[r].isMapChange, req[r].now)
  /\ UNCHANGED tokenCache
  /\ RequestStep(r, HandlerOnNull(req[r]))

\* the upstream request throws (network failure)
UpstreamException(r) ==
  /\ req[r].pc = "awaitUpstream"
  /\ UNCHANGED << lastApiCall, lastMapChangeApiCall, tokenCache >>
  /\ RequestStep(r, HandlerOnNull(req[r]))

\* the retry after a 401 answers 2xx
RetryOk(r, states) ==
  /\ req[r].pc = "awaitRetry"
  /\ UNCHANGED << lastApiCall, lastMapChangeApiCall, tokenCache >>
  /\ RequestStep(r, HandlerOnStates(req[r], states))

\* the retry answers non-2xx (a second 401 included) or throws
RetryFailures == {"nonOk", "unauthorized", "networkError"}

\* variant: a 401 on the retry clears the cache and asks for a token again
RetryFailedRetried(r, failure) ==
  /\ req[r].pc = "awaitRetry"
  /\ UNCHANGED << lastApiCall, lastMapChangeApiCall >>
  /\ IF failure = "unauthorized"
     THEN /\ tokenCache' = [token |-> NO_TOKEN, expiresAt |-> 0]
          /\ RequestStep(r, [req[r] EXCEPT
               !.pc = "awaitToken2", !.tokenNow = now, !.tokenGrants = @ + 1,
               !.unauthorized = @ \cup {req[r].accessToken}])
     ELSE /\ UNCHANGED tokenCache
          /\ RequestStep(r, HandlerOnNull(req[r]))

RetryFailed(r, failure) ==
  /\ req[r].pc = "awaitRetry"
  /\ UNCHANGED << lastApiCall, lastMapChangeApiCall, tokenCache >>
  /\ RequestStep(r, HandlerOnNull([req[r] EXCEPT
       !.unauthorized = IF failure = "unauthorized"
                        THEN @ \cup {req[r].accessToken}
                        ELSE @]))

\* the record lookups of the selected flights have all completed.  The
\* lookups of a flight request are taken without a bucket binding or with
\* store reads that fail, which return null and cache nothing; the lookups
\* that fill aircraftRecordCache are the steps of SpecRecords.
RecordsJoined(r) ==
  /\ req[r].pc = "awaitRecords"
  /\ UNCHANGED << lastApiCall, lastMapChangeApiCall, tokenCache >>
  /\ RequestStep(r, HandlerOnRecords(req[r]))

\* ------------------------------------------------------- specifications
\* the slot of a worker that handles one request at a time
FirstSlot == {1}

\* the steps of the environment that end an await of request r: the
\* answers of a healthy token endpoint, feed and record store ...
GoodAnswers(r, tokens, lists) ==
  \/ \E accessToken \in tokens : TokenGranted(r, accessToken)
  \/ \E states \in lists : UpstreamOk(r, states)
  \/ RecordsJoined(r)

\* ... and every answer
Answers(r, tokens, lists) ==
  \/ GoodAnswers(r, tokens, lists)
  \/ \E failure \in GrantFailures : TokenGrantFailed(r, failure)
  \/ UpstreamUnauthorized(r)
  \/ \E error \in UpstreamErrors : UpstreamError(r, error)
  \/ UpstreamException(r)
  \/ \E states \in lists : RetryOk(r, states)
  \/ \E failure \in RetryFailures : RetryFailed(r, failure)

\* ------------------------------------------------------------- frontend
\* App.jsx: fetchFlightData runs when App is mounted and then every
\* PollInterval; the card keeps the last flight for DisplayWindow after its
\* first detection. A request and its response take no time of the clock.
MaxPolls == 20
PollInterval == 5000
DisplayWindow == 60000
ChimeLists == { <<RepIn>>, <<RepGround, RepIn>>, <<RepIn, RepNear>> }

clientFrame ==
  UNCHANGED << ticks, lastApiCall, lastMapChangeApiCall, API_CALL_INTERVAL,
               tokenCache, MONITORING_REGION, lastFlightsCache, req, resp,
               sighted, recordVars, looked, filterCall, page >>

\* the response to the fetch that fetchFlightData is waiting for
Answered ==
  resp.kind = "check" /\ resp.pc = "done" /\ resp.now = client.polledAt

\* the initial call or the interval timer starts fetchFlightData
Poll ==
  /\ client.pc = "idle"
  /\ client.polls < MaxPolls
  /\ now' = client.due
  /\ client' = [client EXCEPT !.pc = "fetching", !.polledAt = client.due,
                              !.due = client.due + PollInterval,
                              !.polls = client.polls + 1]
  /\ clientFrame

\* fetch(`${API_BASE_URL}/api/check-flights`) reaches the worker
Fetch ==
  /\ client.pc = "fetching"
  /\ ~Answered
  /\ CheckFlights(1)

\* fetchFlightData after `await response.json()`
fetchFlightData(c, response, dateNow) ==
  IF response.status # 200
  THEN [c EXCEPT !.pc = "idle", !.flightData = NULL]
  ELSE IF response.flight # NULL /\ response.flight.inRegion
  THEN LET currentFlightId == IF response.flight.icao24 # ""
                              THEN response.flight.icao24 ELSE "unknown"
           isNewFlight == c.previousFlightIdRef # currentFlightId
       IN  [c EXCEPT !.pc = "idle",
                     !.chimes = IF isNewFlight /\ c.chimeEnabled
                                THEN c.chimes + 1 ELSE c.chimes,
                     !.flightFirstDetectedRef =
                        IF isNewFlight THEN dateNow
                        ELSE c.flightFirstDetectedRef,
                     !.previousFlightIdRef = currentFlightId,
                     !.lastDisplayedFlightRef = response.flight,
                     !.flightData = response.flight,
                     !.detections = c.detections + 1]
  ELSE IF /\ c.flightFirstDetectedRef # 0
          /\ dateNow - c.flightFirstDetectedRef < DisplayWindow
          /\ c.lastDisplayedFlightRef # NULL
       THEN [c EXCEPT !.pc = "idle", !.flightData = c.lastDisplayedFlightRef]
       ELSE [c EXCEPT !.pc = "idle", !.previousFlightIdRef = "null",
                      !.flightFirstDetectedRef = 0,
                      !.lastDisplayedFlightRef = NULL, !.flightData = NULL]

\* the response arrives at the client
Receive ==
  /\ client.pc = "fetching"
  /\ Answered
  /\ client' = fetchFlightData(client, resp, now)
  /\ UNCHANGED now
  /\ clientFrame

\* The frontend polling a worker whose upstream feed always answers, with
\* an aircraft inside the default region in every answer.
InitChime ==
  /\ Loaded
  /\ filterCall = NoCall
  /\ \E enabled \in BOOLEAN :
       client = [NoClient EXCEPT !.chimeEnabled = enabled, !.due = StartTime]

NextChime ==
  \/ Poll
  \/ Fetch
  \/ GoodAnswers(1, TokenValues, ChimeLists)
  \/ Receive

SpecChime == InitChime /\ [][NextChime]_vars

\* The fetch cycle, one request at a time: both endpoints and both
\* categories, every outcome of the token endpoint and of the upstream feed,
\* the steady interval reconfigured; the clock moves along the deadlines of
\* the gate.
CycleBounds == { Box(3400, 3300, -11100, -11200) }
CycleLists == { <<>>, <<RepGround, RepIn>> }
CycleTokens == { "tokA" }
CycleRateLimits == { [isNumber |-> TRUE, value |-> v] : v \in {0, 1} }

Next ==
  \/ Advance(GateDeadlines)
  \/ \E body \in CycleRateLimits : PostRateLimit(body)
  \/ \E r \in FirstSlot : CheckFlights(r)
  \/ \E r \in FirstSlot, bounds \in CycleBounds, mapChanged \in BOOLEAN :
       MapFlights(r, bounds, mapChanged)
  \/ \E r \in FirstSlot : Answers(r, CycleTokens, CycleLists)

Spec == Init /\ [][Next]_vars

\* Concurrent requests at one instant of the clock: the requests of all
\* slots interleave at their awaits.
NextConcurrent ==
  \/ \E r \in Slots : CheckFlights(r)
  \/ \E r \in Slots, bounds \in CycleBounds, mapChanged \in BOOLEAN :
       MapFlights(r, bounds, mapChanged)
  \/ \E r \in Slots : Answers(r, CycleTokens, CycleLists)

SpecConcurrent == Init /\ [][NextConcurrent]_vars

\* Concurrent /api/check-flights requests at one instant of the clock with
\* a token endpoint that issues different tokens: the grants and the 401
\* answers of the requests interleave.
NextTokenRace ==
  \/ \E r \in Slots : CheckFlights(r)
  \/ \E r \in Slots : Answers(r, TokenValues, CycleLists)

SpecTokenRace == Init /\ [][NextTokenRace]_vars

\* Requests at one instant of the clock when every call to the token
\* endpoint, the feed and the record store settles: an await of a request
\* does not last for ever.  A second request arrives only while the first
\* one waits.
SettlingSlots == {1, 2}

NextSettling ==
  \/ \E r \in SettlingSlots : CheckFlights(r)
  \/ \E r \in SettlingSlots, bounds \in CycleBounds, mapChanged \in BOOLEAN :
       MapFlights(r, bounds, mapChanged)
  \/ \E r \in SettlingSlots : Answers(r, CycleTokens, CycleLists)

SpecSettling ==
  /\ Init /\ [][NextSettling]_vars
  /\ \A r \in SettlingSlots : WF_vars(Answers(r, CycleTokens, CycleLists))

\* The snapshot cache of /api/map-flights, one request at a time: steady
\* polling with and without bounds, /api/check-flights on the same gate,
\* the steady interval reconfigured; the clock moves along the deadlines of
\* the gate and of the snapshot.
SnapshotLists == { <<>>, <<RepNear>>, <<RepGround, RepIn>> }
SnapshotRateLimits == { [isNumber |-> TRUE, value |-> 60] }

NextSnapshot ==
  \/ Advance(GateDeadlines \cup SnapshotDeadlines)
  \/ \E body \in SnapshotRateLimits : PostRateLimit(body)
  \/ \E r \in FirstSlot : CheckFlights(r)
  \/ \E r \in FirstSlot, bounds \in BoundsInputs : MapFlights(r, bounds, FALSE)
  \/ \E r \in FirstSlot : Answers(r, CycleTokens, SnapshotLists)

SpecSnapshot == Init /\ [][NextSnapshot]_vars

\* Every endpoint of the worker, one request at a time: the flight requests
\* with every outcome of their fetch cycle, the region and the steady
\* interval read and replaced; the clock moves along the deadlines of the
\* gate and of the snapshot.
WriterLists == { <<RepIn>> }
WriterBounds == { NULL, Box(3400, 3300, -11100, -11200) }
WriterBodies == { RegionBody(Num(3350), Num(-11170), Num(1)) }

NextWriters ==
  \/ Advance(GateDeadlines \cup SnapshotDeadlines)
  \/ \E body \in SnapshotRateLimits : PostRateLimit(body)
  \/ GetRateLimit
  \/ \E body \in WriterBodies : PostRegion(body)
  \/ GetRegion
  \/ \E r \in FirstSlot : CheckFlights(r)
  \/ \E r \in FirstSlot, bounds \in WriterBounds : MapFlights(r, bounds, FALSE)
  \/ \E r \in FirstSlot : Answers(r, CycleTokens, WriterLists)

SpecWriters == Init /\ [][NextWriters]_vars

\* The token cache under concurrent /api/check-flights requests while the
\* clock moves RecordTicks times: two requests start getAccessToken at
\* different instants and their grants, failures and 401 answers interleave.
ClockLists == { <<RepIn>> }

NextTokenClock ==
  \/ ticks < RecordTicks /\ Advance(TokenDeadlines)
  \/ \E r \in SettlingSlots : CheckFlights(r)
  \/ \E r \in SettlingSlots : Answers(r, TokenValues, ClockLists)

SpecTokenClock == Init /\ [][NextTokenClock]_vars

\* The token cache over its lifetime, one /api/check-flights request at a
\* time; the clock moves along the deadline of the cached token.
TokenLists == { <<>>, <<RepGround, RepIn>> }

NextToken ==
  \/ Advance(TokenDeadlines)
  \/ \E r \in FirstSlot : CheckFlights(r)
  \/ \E r \in FirstSlot : Answers(r, TokenValues, TokenLists)

SpecToken == Init /\ [][NextToken]_vars

\* The token cache when the token endpoint issues a new token with every
\* grant: a request is never granted a token that the feed has answered 401
\* to in the same fetch cycle.
NextFreshTokens ==
  \/ Advance(TokenDeadlines)
  \/ \E r \in FirstSlot : CheckFlights(r)
  \/ \E r \in FirstSlot :
       Answers(r, TokenValues \ req[r].unauthorized, TokenLists)

SpecFreshTokens == Init /\ [][NextFreshTokens]_vars

\* Requests in environments with and without the credentials of the
\* provider, one request at a time, at one instant of the clock.
NextCredentials ==
  \/ \E r \in FirstSlot, env \in Envs : CheckFlightsEnv(r, env)
  \/ \E r \in FirstSlot, bounds \in CycleBounds, mapChanged \in BOOLEAN,
        env \in Envs : MapFlightsEnv(r, bounds, mapChanged, env)
  \/ \E r \in FirstSlot : Answers(r, CycleTokens, CycleLists)

SpecCredentials == Init /\ [][NextCredentials]_vars

\* The steady interval: any sequence of POST and GET /api/rate-limit.
NextRateLimit ==
  \/ \E body \in RateLimitInputs : PostRateLimit(body)
  \/ GetRateLimit

SpecRateLimit == Init /\ [][NextRateLimit]_vars

\* The region store: any sequence of POST and GET /api/region.
NextRegion ==
  \/ \E body \in RegionBodies : PostRegion(body)
  \/ GetRegion

SpecRegion == Init /\ [][NextRegion]_vars

\* The geofence under concurrent requests: the region is replaced while
\* flight requests of all slots wait at their awaits.  The centers lie on
\* the meridian of the reports; the last body is rejected for its radius.
GeofenceBodies ==
  { RegionBody(Num(3390), Num(-11170), Num(1)),
    RegionBody(Num(3348), Num(-11170), Num(1)),
    RegionBody(Num(3350), Num(-11170), Num(101)) }
GeofenceLists == { <<RepNear>>, <<RepGround, RepIn>>, <<RepIn, RepNear>> }
GeofenceBounds == { NULL, Box(3400, 3300, -11100, -11200) }

NextGeofence ==
  \/ \E body \in GeofenceBodies : PostRegion(body)
  \/ GetRegion
  \/ \E r \in Slots : CheckFlights(r)
  \/ \E r \in Slots, bounds \in GeofenceBounds : MapFlights(r, bounds, FALSE)
  \/ \E r \in Slots : GoodAnswers(r, CycleTokens, GeofenceLists)

SpecGeofence == Init /\ [][NextGeofence]_vars

\* The record cache: calls of getAircraftInfoOnDemand, up to MaxPending of
\* them waiting for the store at once.  A lookup asks for one of two keys
\* that are asked for again and again, also in parallel, or -- when no
\* lookup waits -- for the first key of KeyOrder that is not cached; the
\* clock moves RecordTicks times along the expiry of the entries of the two
\* keys.
CommonKeys == { "k01", "k02" }

NextIcaos ==
  LET known == CacheKeys(aircraftRecordCache)
                 \cup { lookups[i].key : i \in 1..Len(lookups) }
      fresh == { i \in 1..Len(KeyOrder) : KeyOrder[i] \notin known }
  IN  { icao24 \in IcaoInputs :
          \/ toLowerCase(icao24) \in CommonKeys
          \/ /\ lookups = <<>>
             /\ \E i \in fresh : /\ KeyOrder[i] = toLowerCase(icao24)
                                  /\ \A j \in fresh : i <= j }

CommonDeadlines ==
  { aircraftRecordCache[i].timestamp + AIRCRAFT_RECORD_CACHE_MAX_AGE :
      i \in { j \in 1..Len(aircraftRecordCache) :
                aircraftRecordCache[j].key \in CommonKeys } }

NextRecords ==
  \/ ticks < RecordTicks /\ Advance(CommonDeadlines)
  \/ \E icao24 \in NextIcaos : Lookup(icao24)
  \/ \E i \in 1..Len(lookups) : StoreAnswered(i)
  \/ \E i \in 1..Len(lookups) : StoreFailed(i)

SpecRecords == Init /\ [][NextRecords]_vars

\* The flight filters on their own: processFlights and
\* processMultipleFlights are called once with a list of up to MaxReports
\* reports, bounds and a limit, with the worker holding one of the regions
\* that POST /api/region stores.
FilterReports == { RepIn, RepNear, RepGround, RepZero }
FilterLists == UNION { [1..n -> FilterReports] : n \in 0..MaxReports }
FilterLimits == { 1, 2, MapMaxFlights }
FilterBounds ==
  { NULL,
    Box(3400, 3300, -11100, -11200),
    Box(3400, 0, -11100, -11200),
    Box(100, -100, -11100, -11200) }
FilterRegions ==
  { DEFAULT_REGION,
    [center |-> [lat |-> 0, lon |-> -11170], radiusMiles |-> Num(3)],
    [center |-> [lat |-> 3390, lon |-> -11170], radiusMiles |-> Num(1)] }

InitFilter ==
  /\ Loaded
  /\ client = NoClient
  /\ \E flights \in FilterLists, maxFlights \in FilterLimits,
        bounds \in FilterBounds :
       filterCall = [NoCall EXCEPT !.flights = flights,
                                   !.maxFlights = maxFlights,
                                   !.bounds = bounds]

\* the steps of the filter specification leave the rest of the worker alone
FilterFrame ==
  UNCHANGED << now, ticks, lastApiCall, lastMapChangeApiCall,
               API_CALL_INTERVAL, tokenCache, lastFlightsCache, req, resp,
               sighted, recordVars, looked, page, client >>

\* the worker holds a region when the filters are called
RegionStored(region) ==
  /\ ~filterCall.returned /\ filterCall.region = NULL
  /\ MONITORING_REGION' = region
  /\ filterCall' = [filterCall EXCEPT !.region = region]
  /\ FilterFrame

\* processFlights(flights), up to the record lookup of the flight it found
CallProcessFlights ==
  /\ ~filterCall.returned /\ filterCall.region # NULL
  /\ filterCall' = [filterCall EXCEPT
       !.returned = TRUE, !.called = "processFlights",
       !.flight = processFlights(filterCall.flights, MONITORING_REGION)]
  /\ UNCHANGED MONITORING_REGION
  /\ FilterFrame

\* processMultipleFlights(flights, maxFlights, bounds), its first pass
CallProcessMultipleFlights ==
  /\ ~filterCall.returned /\ filterCall.region # NULL
  /\ filterCall' = [filterCall EXCEPT
       !.returned = TRUE, !.called = "processMultipleFlights",
       !.selected = processMultipleFlights(filterCall.flights,
                                           filterCall.maxFlights,
                                           filterCall.bounds,
                                           MONITORING_REGION)]
  /\ UNCHANGED MONITORING_REGION
  /\ FilterFrame

NextFilter ==
  \/ \E region \in FilterRegions : RegionStored(region)
  \/ CallProcessFlights
  \/ CallProcessMultipleFlights

SpecFilter == InitFilter /\ [][NextFilter]_vars

\* isPointInBounds on its own: one call with a point and viewport bounds
\* whose south is not north of its north; the edges and the points include
\* the equator, the prime meridian and both sides of the antimeridian.
BoundsLatitudes == { Deg(-10), 0, Deg(33), Deg(34) }
BoundsLongitudes == { Deg(-170), Deg(-112), Deg(-111), 0, Deg(170) }
PointLatitudes == { Deg(-10), Deg(-5), 0, 3350, Deg(50) }
PointLongitudes == { Deg(-175), -11170, 0, Deg(170), Deg(175) }
ViewportInputs ==
  { bounds \in { Box(n, s, e, w) : n \in BoundsLatitudes,
                                   s \in BoundsLatitudes,
                                   e \in BoundsLongitudes,
                                   w \in BoundsLongitudes } :
      bounds.south <= bounds.north }

InitBounds ==
  /\ Loaded
  /\ client = NoClient
  /\ \E latitude \in PointLatitudes, longitude \in PointLongitudes,
        bounds \in ViewportInputs :
       filterCall = [NoCall EXCEPT !.latitude = latitude,
                                   !.longitude = longitude,
                                   !.bounds = bounds]

\* isPointInBounds(latitude, longitude, bounds)
CallIsPointInBounds ==
  /\ ~filterCall.returned
  /\ filterCall' = [filterCall EXCEPT
       !.returned = TRUE, !.called = "isPointInBounds",
       !.result = isPointInBounds(filterCall.latitude, filterCall.longitude,
                                  filterCall.bounds)]
  /\ UNCHANGED MONITORING_REGION
  /\ FilterFrame

NextBounds == CallIsPointInBounds

\* isPointInRegion on its own: one call with coordinates and a region that
\* are well formed or malformed in one of the ways a value of JavaScript
\* can be: a string (numeric or not), undefined, null, NaN, a region
\* without center.
RegionLatitudes ==
  { Num(3348), Str(3348), Str(NaN), Undefined, Null }
RegionLongitudes == { Num(-11170), Str(-11170), Undefined }
RegionRadii == { Num(3), Num(1), Str(3), Undefined }
RegionInputs ==
  { NULL, [center |-> NULL, radiusMiles |-> Num(3)] }
  \cup { [center |-> [lat |-> lat, lon |-> lon], radiusMiles |-> radiusMiles] :
           lat \in RegionLatitudes, lon \in RegionLongitudes,
           radiusMiles \in RegionRadii }
LatitudeValues ==
  { Num(3350), Num(3390), Num(0), Num(NaN), Str(3350), Undefined }
LongitudeValues == { Num(-11170), Num(NaN), Str(-11170) }

InitRegionTest ==
  /\ Loaded
  /\ client = NoClient
  /\ \E latitude \in LatitudeValues, longitude \in LongitudeValues,
        region \in RegionInputs :
       filterCall = [NoCall EXCEPT !.latitude = latitude,
                                   !.longitude = longitude,
                                   !.region = region]

\* isPointInRegion(latitude, longitude, region)
CallIsPointInRegion ==
  /\ ~filterCall.returned
  /\ filterCall' = [filterCall EXCEPT
       !.returned = TRUE, !.called = "isPointInRegion",
       !.result = isPointInRegionOfValues(filterCall.latitude,
                                          filterCall.longitude,
                                          filterCall.region)]
  /\ UNCHANGED MONITORING_REGION
  /\ FilterFrame

NextRegionTest == CallIsPointInRegion

SpecRegionTest == InitRegionTest /\ [][NextRegionTest]_vars

SpecBounds == InitBounds /\ [][NextBounds]_vars

\* The enrichment of pages of selected flights, one page after the other:
\* the store has the records of two of the three aircraft, and each read of it
\* returns or fails.  The reports of a list are of different aircraft, as the
\* state vectors of the provider are.
PageLists ==
  { <<>>, <<RepIn>>, <<RepNear>>, <<RepIn, RepNear>>,
    <<RepNear, RepGround, RepIn>>, <<RepIn, RepSouth, RepNear>> }
PageBounds == { NULL, Box(3400, 3300, -11100, -11200) }

NextEnrich ==
  \/ \E flights \in PageLists, bounds \in PageBounds :
       EnrichStarted(flights, bounds)
  \/ \E i \in 1..Len(page.lookups) : PageStoreAnswered(i)
  \/ \E i \in 1..Len(page.lookups), failure \in StoreFailures :
       PageStoreFailed(i, failure)
  \/ PromiseAllResolved

SpecEnrich == Init /\ [][NextEnrich]_vars

\* ------------------------------------------------------------ properties
\* resp is the response of a request whose fetch cycle was stopped by the gate
Denied(q) == q.kind \in {"check", "map"} /\ q.pc = "done" /\ ~q.passedGate

\* resp is the response of a request whose fetch cycle returned null
FellBack(q) == q.pc = "done" /\ q.fetched = "null"

\* the timestamp of the category of request q
LastCallOf(q) == IF q.isMapChange THEN lastMapChangeApiCall ELSE lastApiCall

\* C1: when a fetch cycle that passed the gate has ended, its category's
\* last-call timestamp is the start time of the cycle, whatever the outcome
\* of the token grant and of the upstream request (one request at a time).
C1_GateClosesOnAttempt ==
  (resp.pc = "done" /\ resp.passedGate) => LastCallOf(resp) = resp.now

\* C2: a /api/map-flights request that the gate denies, carrying the bounds
\* of the snapshot of the last successful cycle, answers with the list of
\* that snapshot when the list is not empty -- whatever the steady interval
\* is and whatever /api/check-flights requests came in between.
C2_DeniedMapKeepsFlights ==
  ( Denied(resp) /\ resp.kind = "map"
    /\ lastFlightsCache.flights # <<>>
    /\ resp.bounds = lastFlightsCache.bounds )
  => resp.flights = lastFlightsCache.flights

\* C3: a /api/check-flights request that the gate denies within the steady
\* interval of a /api/check-flights cycle that found a flight in the region
\* does not answer flight: null.
C3_DeniedCheckKeepsFlight ==
  (Denied(resp) /\ resp.kind = "check" /\ sighted) => resp.flight # NULL

\* the age of the snapshot at the response
SnapshotAge == now - lastFlightsCache.timestamp

\* two parsed bounds differ by less than one degree
WithinOneDegree(a, b) ==
  a # NaN /\ b # NaN /\ a - b < 100 /\ b - a < 100

\* each of north, south, east and west of the snapshot's bounds differs by
\* less than one degree from the requested one
SimilarBounds(bounds, cached) ==
  /\ WithinOneDegree(bounds.north, cached.north)
  /\ WithinOneDegree(bounds.south, cached.south)
  /\ WithinOneDegree(bounds.east, cached.east)
  /\ WithinOneDegree(bounds.west, cached.west)

\* C4 as stated: a /api/map-flights response after a denied or failed cycle
\* is the snapshot's list only if the snapshot is younger than 30 s, both
\* the request and the snapshot have bounds and the bounds are similar; in
\* every other case it is the empty list.
C4_ServedOnlyOnSimilarBounds ==
  ( FellBack(resp) /\ resp.kind = "map" /\ resp.flights # <<>> )
  => /\ SnapshotAge < 30 * 1000
     /\ resp.bounds # NULL
     /\ lastFlightsCache.bounds # NULL
     /\ SimilarBounds(resp.bounds, lastFlightsCache.bounds)

\* the list of the fallback for a request with these bounds
FallbackList(bounds) ==
  IF /\ lastFlightsCache.flights # <<>>
     /\ SnapshotAge < 30 * 1000
     /\ \/ bounds = NULL
        \/ lastFlightsCache.bounds = NULL
        \/ SimilarBounds(bounds, lastFlightsCache.bounds)
  THEN lastFlightsCache.flights
  ELSE <<>>

\* C4 amended: the response after a denied or failed cycle is the snapshot's
\* list exactly when the snapshot is not empty, is younger than 30 s and
\* either the request has no bounds, or the snapshot has none, or the bounds
\* are similar; in every other case it is the empty list.
C4_FallbackRule ==
  ( FellBack(resp) /\ resp.kind = "map" )
  => resp.flights = FallbackList(resp.bounds)

\* the snapshot is served to a request whose bounds differ from the
\* snapshot's by half a degree
C4_Witness ==
  /\ FellBack(resp) /\ resp.kind = "map" /\ resp.flights # <<>>
  /\ resp.bounds # NULL /\ lastFlightsCache.bounds # NULL
  /\ resp.bounds.north - lastFlightsCache.bounds.north = 50

\* C5: a /api/map-flights response that was not built from upstream states
\* fetched by the same request holds flights only if it is the list of a
\* snapshot taken less than 30 s before the response; with a snapshot aged
\* 30 s or more the response is empty.
C5_StalenessCeiling ==
  ( FellBack(resp) /\ resp.kind = "map" )
  => /\ resp.flights # <<>> =>
          /\ resp.flights = lastFlightsCache.flights
          /\ SnapshotAge < 30 * 1000
     /\ SnapshotAge >= 30 * 1000 => resp.flights = <<>>

\* a snapshot one millisecond younger than the ceiling is served
C5_Witness ==
  /\ FellBack(resp) /\ resp.kind = "map" /\ resp.flights # <<>>
  /\ SnapshotAge = 30 * 1000 - 1

\* the token cache holds no token
TokenCacheEmpty(cache) == cache.token = NO_TOKEN /\ cache.expiresAt = 0

\* the step takes request r from one await to the next
Moves(r, from, to) == req[r].pc = from /\ req'[r].pc = to

\* the step ends request r with response resp'
Ends(r, from) == req[r].pc = from /\ req'[r].pc = "idle" /\ resp'.pc = "done"

CallsGetAccessToken(r) ==
  \/ req[r].pc = "idle" /\ req'[r].pc # "idle"
  \/ Moves(r, "awaitUpstream", "awaitToken2")

\* C7: getAccessToken returns the cached token without a request to the token
\* endpoint if and only if a token is cached and its expiresAt is more than
\* 5 minutes after the time of the call; otherwise it asks for a grant, and
\* a successful grant caches the new token with expiresAt 30 minutes after
\* the time of the call.
C7_TokenReuseAndRefresh ==
  [][ \A r \in FirstSlot :
        /\ CallsGetAccessToken(r)
             => IF tokenCache'.token # NO_TOKEN
                   /\ tokenCache'.expiresAt - now > 5 * 60 * 1000
                THEN /\ req'[r].pc = "awaitUpstream"
                     /\ req'[r].tokenGrants = req[r].tokenGrants
                     /\ req'[r].accessToken = tokenCache'.token
                     /\ tokenCache' = tokenCache
                ELSE /\ req'[r].pc \in {"awaitToken", "awaitToken2"}
                     /\ req'[r].tokenGrants = req[r].tokenGrants + 1
                     /\ req'[r].tokenNow = now
        /\ ( req[r].pc \in {"awaitToken", "awaitToken2"}
             /\ req'[r].pc \in {"awaitUpstream", "awaitRetry"} )
             => /\ tokenCache'.token = req'[r].accessToken
                /\ tokenCache'.token # NO_TOKEN
                /\ tokenCache'.expiresAt = req[r].tokenNow + 30 * 60 * 1000
    ]_vars

\* a request uses the cached token one millisecond before the token enters
\* its 5-minute buffer
C7_Witness ==
  \E r \in FirstSlot :
    /\ req[r].pc = "awaitUpstream" /\ req[r].usedCachedToken
    /\ req[r].now = now
    /\ tokenCache.expiresAt - now = 5 * 60 * 1000 + 1

\* C8 as stated: after a failed token grant the token cache is empty, the
\* fetch cycle has returned null and the request has completed with status
\* 200 and a null flight / an empty flight list.
C8_GrantFailureAnswersEmpty ==
  resp.grantFailed
  => /\ TokenCacheEmpty(tokenCache)
     /\ resp.pc = "done" /\ resp.fetched = "null" /\ resp.status = 200
     /\ resp.flight = NULL /\ resp.flights = <<>>

\* C8 amended: after a failed token grant the token cache is empty, the
\* fetch cycle has returned null and the request has completed with status
\* 200: /api/check-flights with a null flight, /api/map-flights with the list
\* of the fallback (the snapshot's list when it is younger than 30 s and its
\* bounds match, else the empty list).
C8_GrantFailureAnswersFallback ==
  resp.grantFailed
  => /\ TokenCacheEmpty(tokenCache)
     /\ resp.pc = "done" /\ resp.fetched = "null" /\ resp.status = 200
     /\ resp.flight = NULL
     /\ resp.flights = IF resp.kind = "map" THEN FallbackList(resp.bounds)
                                            ELSE <<>>

\* a /api/map-flights request whose grant failed answers with the flights of
\* the snapshot
C8_Witness ==
  /\ resp.grantFailed /\ resp.kind = "map" /\ resp.status = 200
  /\ resp.flights # <<>>

\* the interval of the category of request q
IntervalOf(q) == IF q.isMapChange THEN MAP_CHANGE_API_INTERVAL
                                  ELSE API_CALL_INTERVAL

\* C9: after the response of a fetch cycle that the gate allowed at time t,
\* a request of the same category at a time before t + interval is denied
\* (the gate compares now - lastCall with the interval, and the allowed call
\* has set lastCall to t).
C9_DeniedWithinInterval ==
  [][ \A r \in FirstSlot :
        ( /\ resp.pc = "done" /\ resp.passedGate
          /\ now - resp.now < IntervalOf(resp)
          /\ req[r].pc = "idle" /\ req'[r].pc # "idle"
          /\ req'[r].isMapChange = resp.isMapChange )
        => ~req'[r].passedGate
    ]_vars

\* C10: a step of a cycle of category normal leaves lastMapChangeApiCall
\* unchanged and a step of a cycle of category mapChange leaves lastApiCall
\* unchanged; a request is denied exactly when now minus the timestamp of its
\* own category is less than the interval of its own category, so that calls
\* of the other category never cause a denial.
C10_CategoriesIndependent ==
  [][ /\ \A r \in Slots :
           /\ (req[r].pc # "idle" /\ req'[r] # req[r])
                => IF req[r].isMapChange
                   THEN lastApiCall' = lastApiCall
                   ELSE lastMapChangeApiCall' = lastMapChangeApiCall
           /\ (req[r].pc = "idle" /\ req'[r].pc # "idle")
                => /\ req'[r].passedGate
                   /\ IF req'[r].isMapChange
                      THEN now - lastMapChangeApiCall >= MAP_CHANGE_API_INTERVAL
                      ELSE now - lastApiCall >= API_CALL_INTERVAL
      /\ Denied(resp')
           => IF resp'.isMapChange
              THEN resp'.now - lastMapChangeApiCall' < MAP_CHANGE_API_INTERVAL
              ELSE resp'.now - lastApiCall' < API_CALL_INTERVAL'
    ]_vars

\* a request of category mapChange has passed the gate while the gate of
\* category normal is closed, and the timestamp of category normal is the one
\* a normal cycle has set
C10_Witness ==
  \E r \in Slots :
    /\ req[r].pc # "idle" /\ req[r].isMapChange /\ req[r].passedGate
    /\ lastApiCall # 0 /\ now - lastApiCall < API_CALL_INTERVAL
    /\ lastMapChangeApiCall = 0

\* C11: the stored monitoring region always has -90 <= lat <= 90,
\* -180 <= lon <= 180 and a radiusMiles that is a number with
\* 0 < radiusMiles <= 100, whatever bodies were posted to /api/region.
C11_RegionWithinBounds ==
  /\ MONITORING_REGION.center.lat >= -90 * 100
  /\ MONITORING_REGION.center.lat <= 90 * 100
  /\ MONITORING_REGION.center.lon >= -180 * 100
  /\ MONITORING_REGION.center.lon <= 180 * 100
  /\ MONITORING_REGION.radiusMiles.type = "number"
  /\ MONITORING_REGION.radiusMiles.num > 0
  /\ MONITORING_REGION.radiusMiles.num <= 100

\* the body cannot be parsed, lacks a numeric center.lat or center.lon, or
\* holds a latitude, a longitude or a radius outside the bounds of a region
ViolatesRegion(body) ==
  \/ ~body.parsed
  \/ body.center = NULL
  \/ body.center.lat.type # "number" \/ body.center.lon.type # "number"
  \/ body.center.lat.num < -90 * 100 \/ body.center.lat.num > 90 * 100
  \/ body.center.lon.num < -180 * 100 \/ body.center.lon.num > 180 * 100
  \/ /\ body.radiusMiles.type = "number"
     /\ body.radiusMiles.num <= 0 \/ body.radiusMiles.num > 100

\* C12: a POST /api/region with such a body is answered with status 400 and
\* leaves the stored region, which GET /api/region returns, as it was.
C12_InvalidRegionRejected ==
  [][ \A body \in RegionBodies :
        ( ViolatesRegion(body) /\ PostRegion(body) )
        => ( resp'.status = 400 /\ MONITORING_REGION' = MONITORING_REGION )
    ]_vars

\* the regions that exist as a whole: the default region and the region of
\* every body that POST /api/region accepts
WholeRegions ==
  { DEFAULT_REGION }
  \cup { [center |-> [lat |-> body.center.lat.num, lon |-> body.center.lon.num],
          radiusMiles |-> body.radiusMiles] :
         body \in { b \in GeofenceBodies : ~ViolatesRegion(b) } }

\* the position of a flight lies in the circle of region R (one meridian)
InCircle(flight, R) ==
  (Abs(flight.latitude - R.center.lat) * 69098) \div 100
    <= R.radiusMiles.num * 1000

\* the flights of one filtering pass carry the inRegion flags of one region,
\* which also selected them when the request has no bounds
OnePass(flights, bounds) ==
  \E R \in WholeRegions :
    \A i \in 1..Len(flights) :
      /\ flights[i].inRegion = InCircle(flights[i], R)
      /\ bounds = NULL => flights[i].inRegion

\* C13: the stored region and every region a response returns is the whole
\* default region or the whole region of one accepted POST, never the center
\* of one with the radius of another; the flights that one filtering pass of
\* a /api/map-flights request selected carry the inRegion flags of one and
\* the same whole region -- with requests and POSTs interleaving.
C13_RegionReplacedAtomically ==
  /\ MONITORING_REGION \in WholeRegions
  /\ resp.region # NULL => resp.region \in WholeRegions
  /\ ( resp.kind = "map" /\ resp.fetched = "states" )
       => OnePass(resp.flights, resp.bounds)
  /\ \A r \in Slots :
       ( req[r].kind = "map" /\ req[r].pc = "awaitRecords" )
       => OnePass(req[r].picked, req[r].bounds)

\* a /api/map-flights response with two flights whose filtering pass ran
\* before the region was replaced: the flags are those of the old region
C13_Witness ==
  /\ resp.kind = "map" /\ resp.fetched = "states" /\ Len(resp.flights) = 2
  /\ \E i \in 1..Len(resp.flights) :
       resp.flights[i].inRegion # InCircle(resp.flights[i], MONITORING_REGION)

\* C14: the aircraft record cache never holds more than maxSize entries.
C14_CacheWithinMaxSize == Len(aircraftRecordCache) <= maxSize

\* the keys that a step removes from the cache and adds to it
Removed == CacheKeys(aircraftRecordCache) \ CacheKeys(aircraftRecordCache')
Inserted == CacheKeys(aircraftRecordCache') \ CacheKeys(aircraftRecordCache)

\* C15: a step that inserts a new key into a cache of maxSize entries
\* removes at least 10% of the entries, and no removed entry has a later
\* timestamp than an entry that stays; a step that inserts no new key, or
\* inserts into a cache below maxSize, removes nothing.
C15_EvictionOnInsert ==
  [][ /\ ( Inserted # {} /\ Len(aircraftRecordCache) = maxSize )
           => /\ Cardinality(Removed) * 10 >= Len(aircraftRecordCache)
              /\ \A gone \in Removed :
                   \A kept \in CacheKeys(aircraftRecordCache) \ Removed :
                     CacheEntry(aircraftRecordCache, gone).timestamp
                       <= CacheEntry(aircraftRecordCache, kept).timestamp
      /\ ( Inserted = {} \/ Len(aircraftRecordCache) < maxSize )
           => Removed = {}
    ]_vars

\* the cache holds an entry of the key that is younger than one hour
FreshEntry(key) ==
  \E i \in 1..Len(aircraftRecordCache) :
    /\ aircraftRecordCache[i].key = key
    /\ now - aircraftRecordCache[i].timestamp < 60 * 60 * 1000

\* the cache holds this value for the key
Cached(key, data) ==
  \E i \in 1..Len(aircraftRecordCache) :
    aircraftRecordCache[i].key = key /\ aircraftRecordCache[i].data = data

\* C16: a lookup returns from the cache, without a request to the store,
\* exactly when the cache holds an entry of the lower-cased key that is
\* younger than one hour, and it returns the cached value, null included;
\* otherwise it issues one request for aircraft/<lower-cased key>.json, and
\* when the store answers, the record is cached, or null when the store has
\* no such object.
C16_LookupUsesCache ==
  /\ looked.step # "none" => looked.key \in LowerKeys
  /\ looked.step = "hit"
       => /\ FreshEntry(looked.key)
          /\ Cached(looked.key, looked.value)
          /\ looked.storeRequests = 0
  /\ looked.step = "get"
       => /\ ~FreshEntry(looked.key)
          /\ looked.storeRequests = 1
          /\ lookups # <<>>
          /\ lookups[Len(lookups)].objectKey
               = << "aircraft/", looked.key, ".json" >>
  /\ looked.step = "found"
       => /\ looked.value # NULL
          /\ Cached(looked.key, looked.value)
          /\ looked.storeRequests = 0
  /\ looked.step = "notFound"
       => /\ looked.value = NULL
          /\ Cached(looked.key, NULL)
          /\ << "aircraft/", looked.key, ".json" >> \notin StoreObjects

\* a lookup in upper case is answered from the cache with the "not found"
\* of an entry one millisecond younger than one hour
C16_Witness ==
  /\ looked.step = "hit" /\ looked.value = NULL /\ looked.key = "k02"
  /\ \E i \in 1..Len(aircraftRecordCache) :
       /\ aircraftRecordCache[i].key = "k02"
       /\ now - aircraftRecordCache[i].timestamp = 60 * 60 * 1000 - 1

\* a report is airborne unless its on-ground flag is true
Airborne(report) == report.onGround # TRUE

\* the indices of the reports of a list that are airborne and lie in the
\* circle of region R
Qualifying(flights, R) ==
  { i \in 1..Len(flights) : Airborne(flights[i]) /\ InCircle(flights[i], R) }

\* flight data d was made from report
MadeFrom(d, report) ==
  /\ d # NULL
  /\ d.icao24 = report.icao24
  /\ d.latitude = report.latitude
  /\ d.longitude = report.longitude

\* C17: processFlights returns the first report in provider order that is
\* airborne and lies in the circle of the current region, positions with a
\* latitude or longitude of 0 included, and returns null only when no
\* report of the list qualifies.
C17_FirstQualifyingReport ==
  filterCall.called = "processFlights"
    => LET q == Qualifying(filterCall.flights, MONITORING_REGION)
       IN  IF q = {}
           THEN filterCall.flight = NULL
           ELSE \E i \in q :
                  /\ \A j \in q : i <= j
                  /\ MadeFrom(filterCall.flight, filterCall.flights[i])

\* the position of a report lies inside viewport bounds that do not cross
\* the antimeridian
InBox(report, bounds) ==
  /\ bounds.south <= report.latitude /\ report.latitude <= bounds.north
  /\ bounds.west <= report.longitude /\ report.longitude <= bounds.east

\* C18: with a limit that the list does not reach, processMultipleFlights
\* selects an airborne report exactly when it lies inside the bounds, or
\* inside the region when no bounds were given, and every selected flight
\* carries inRegion equal to pointInCircle of its position and the region.
C18_SelectionAndInRegion ==
  filterCall.called = "processMultipleFlights"
  /\ filterCall.maxFlights > Len(filterCall.flights)
    => /\ \A i \in 1..Len(filterCall.flights) :
            LET report == filterCall.flights[i]
                inside == IF filterCall.bounds # NULL
                          THEN InBox(report, filterCall.bounds)
                          ELSE InCircle(report, MONITORING_REGION)
            IN  Airborne(report)
                  => ( inside <=>
                       \E k \in 1..Len(filterCall.selected) :
                          MadeFrom(filterCall.selected[k], report) )
       /\ \A k \in 1..Len(filterCall.selected) :
            filterCall.selected[k].inRegion
              = InCircle(filterCall.selected[k], MONITORING_REGION)

\* the flights processMultipleFlights selects from a list when the limit
\* is out of reach
AllSelected ==
  processMultipleFlights(filterCall.flights, Len(filterCall.flights) + 1,
                         filterCall.bounds, MONITORING_REGION)

MapAnswered ==
  resp.kind = "map" /\ resp.pc = "done" /\ resp.fetched = "states"

\* C20: when a /api/map-flights request whose upstream fetch succeeded
\* answers, the snapshot is the flight list of the response (also an empty
\* one), the bounds of the request (null if it gave none), and the time of
\* storing.
C20_SnapshotOfLastSuccess ==
  MapAnswered
    => /\ lastFlightsCache.flights = resp.flights
       /\ lastFlightsCache.bounds = resp.bounds
       /\ lastFlightsCache.timestamp = now

\* a request without bounds stored an empty list, at a time later than its
\* reading of the gate clock
C20_Witness ==
  /\ MapAnswered
  /\ resp.flights = <<>> /\ resp.bounds = NULL
  /\ now > resp.now
  /\ lastFlightsCache.flights = <<>> /\ lastFlightsCache.timestamp = now

\* no /api/map-flights request has stored a snapshot since the worker was
\* loaded
NoSnapshotYet ==
  lastFlightsCache = [flights |-> <<>>, timestamp |-> 0, bounds |-> NULL]

\* C21: a /api/map-flights request that finds the gate closed while no
\* snapshot has been stored answers with status 200 and an empty flights
\* list.
C21_ClosedGateNoSnapshot ==
  ( resp.kind = "map" /\ Denied(resp) /\ NoSnapshotYet )
    => resp.status = 200 /\ resp.flights = <<>>

\* /api/check-flights closed the gate and a /api/map-flights request with
\* bounds was denied before any snapshot was stored
C21_Witness ==
  /\ resp.kind = "map" /\ Denied(resp) /\ NoSnapshotYet
  /\ resp.bounds # NULL
  /\ lastApiCall > 0
  /\ resp.status = 200 /\ resp.flights = <<>>

\* C22: while a page waits for its lookups, one lookup has been started for
\* every selected flight; a page is returned only when every lookup has
\* returned, it holds every selected flight in order, and a flight whose
\* lookup failed in the store carries no enrichment.
C22_EnrichmentJoinsAllLookups ==
  /\ page.pc = "awaitAll"
       => /\ Len(page.lookups) = Len(page.flightsInBounds)
          /\ \A i \in 1..Len(page.lookups) :
               page.lookups[i].icao24 = page.flightsInBounds[i].icao24
  /\ page.pc = "returned"
       => /\ \A i \in 1..Len(page.lookups) : page.lookups[i].step # "get"
          /\ Len(page.result) = Len(page.flightsInBounds)
          /\ \A i \in 1..Len(page.result) :
               /\ page.result[i].flight = page.flightsInBounds[i]
               /\ page.lookups[i].step = "error"
                    => page.result[i].aircraftInfo = NULL

\* a page of three flights is returned with one record from the store, one
\* failed lookup and one record from the cache
C22_Witness ==
  /\ page.pc = "returned"
  /\ Len(page.result) = 3
  /\ \E i, j, k \in 1..3 :
       /\ page.lookups[i].step = "found"
       /\ page.result[i].aircraftInfo # NULL
       /\ page.lookups[j].step = "error"
       /\ page.result[j].aircraftInfo = NULL
       /\ page.lookups[k].step = "hit"

\* a flight request arrives in environment env
ArrivesIn(env) ==
  \E r \in FirstSlot :
    \/ CheckFlightsEnv(r, env)
    \/ \E bounds \in CycleBounds, mapChanged \in BOOLEAN :
         MapFlightsEnv(r, bounds, mapChanged, env)

\* C23: a flight request in an environment without the client id or
\* without the client secret is answered at once with status 200, flight
\* null and an empty flights list; it issues no token grant and no upstream
\* request and leaves the timestamps of the gate, the token cache and the
\* snapshot as they were.
C23_MissingCredentialsDegrade ==
  [][ \A env \in Envs :
        ( /\ env.OPENSKY_CLIENT_ID = "" \/ env.OPENSKY_CLIENT_SECRET = ""
          /\ ArrivesIn(env) )
          => /\ resp'.pc = "done" /\ resp'.status = 200
             /\ resp'.flight = NULL /\ resp'.flights = <<>>
             /\ resp'.tokenGrants = 0 /\ resp'.upstreamRequests = 0
             /\ req' = req
             /\ UNCHANGED << lastApiCall, lastMapChangeApiCall, tokenCache,
                             lastFlightsCache >> ]_vars

\* /api/map-flights is answered without credentials while the gate has a
\* timestamp, a token is cached and the snapshot holds flights
C23_Witness ==
  /\ resp.kind = "map" /\ resp.error # "" /\ resp.flights = <<>>
  /\ lastApiCall > 0
  /\ tokenCache.token # NO_TOKEN
  /\ lastFlightsCache.flights # <<>>

\* a /api/check-flights or /api/map-flights request has just been answered
FlightAnswered == resp.kind \in {"check", "map"} /\ resp.pc = "done"

\* C24: every flight request that waits for the token endpoint, the feed or
\* the record store is answered in the end, whatever fails; every answer
\* has status 200 and a null, empty or partial result, and the request has
\* asked the token endpoint and the feed at most twice each (one call and
\* one repetition).
C24_AlwaysAnsweredNoSecondRetry ==
  /\ [] ( FlightAnswered
            => /\ resp.status = 200
               /\ resp.tokenGrants <= 2
               /\ resp.upstreamRequests <= 2
               /\ resp.kind = "check" => resp.flights = <<>>
               /\ resp.kind = "map" => resp.flight = NULL )
  /\ \A r \in SettlingSlots : (req[r].pc # "idle") ~> (req[r].pc = "idle")

\* a request is answered after a 401, a second grant and a retry that failed
C24_Witness ==
  /\ FlightAnswered
  /\ resp.tokenGrants = 2 /\ resp.upstreamRequests = 2
  /\ resp.fetched = "null" /\ resp.status = 200

\* C25: the steady interval is always between 1 and 300 seconds and the
\* map-change interval is 3 seconds; a POST /api/rate-limit whose
\* rateLimitSeconds is not a number from 1 to 300 is answered 400 and
\* leaves the steady interval as it was, any other POST sets it, and GET
\* /api/rate-limit returns the interval in force (30 seconds at first).
C25_SteadyIntervalInRange ==
  /\ [] ( /\ API_CALL_INTERVAL >= 1 * 1000
          /\ API_CALL_INTERVAL <= 300 * 1000
          /\ MAP_CHANGE_API_INTERVAL = 3 * 1000 )
  /\ [][ /\ \A body \in RateLimitInputs :
              PostRateLimit(body)
                => IF body.isNumber /\ 1 <= body.value /\ body.value <= 300
                   THEN /\ resp'.status = 200
                        /\ API_CALL_INTERVAL' = body.value * 1000
                   ELSE /\ resp'.status = 400
                        /\ API_CALL_INTERVAL' = API_CALL_INTERVAL
         /\ GetRateLimit
              => /\ resp'.rateLimitSeconds * 1000 = API_CALL_INTERVAL
                 /\ API_CALL_INTERVAL' = API_CALL_INTERVAL ]_vars
  /\ API_CALL_INTERVAL = 30 * 1000

\* GET /api/rate-limit returns 300 after a POST with 300 was accepted
C25_Witness ==
  /\ resp.kind = "getRateLimit" /\ resp.rateLimitSeconds = 300
  /\ API_CALL_INTERVAL = 300 * 1000

\* the longitude test of viewport bounds: a range when west is not east of
\* east, the two ranges on either side of the antimeridian otherwise
LongitudeInside(longitude, bounds) ==
  IF bounds.west <= bounds.east
  THEN bounds.west <= longitude /\ longitude <= bounds.east
  ELSE longitude >= bounds.west \/ longitude <= bounds.east

\* C26: for bounds with south <= north, edges equal to 0 included,
\* isPointInBounds returns true exactly when the latitude lies between
\* south and north and the longitude passes the longitude test.
C26_PointInBounds ==
  filterCall.called = "isPointInBounds"
    => ( filterCall.result
         <=> /\ filterCall.bounds.south <= filterCall.latitude
             /\ filterCall.latitude <= filterCall.bounds.north
             /\ LongitudeInside(filterCall.longitude, filterCall.bounds) )

\* a value of JavaScript is a number other than NaN
IsNumber(v) == v.type = "number" /\ v.num # NaN

\* the region has a center with numeric lat and lon and a numeric radius
WellFormedRegion(region) ==
  /\ region # NULL
  /\ region.center # NULL
  /\ IsNumber(region.center.lat) /\ IsNumber(region.center.lon)
  /\ IsNumber(region.radiusMiles)

C28_RejectedTokenLeavesCache ==
  /\ tokenCache.token \in TokenValues \cup {NO_TOKEN}
  /\ FlightAnswered => tokenCache.token \notin resp.unauthorized

\* C29: two fetch cycles of one category that have both sent a request to
\* the feed read the clock for the gate at least the interval of the
\* category apart, however the requests interleave.
C29_UpstreamRequestsSpaced ==
  \A r1, r2 \in Slots :
    ( /\ r1 # r2
      /\ req[r1].kind # "none" /\ req[r2].kind # "none"
      /\ req[r1].upstreamRequests > 0 /\ req[r2].upstreamRequests > 0
      /\ req[r1].isMapChange = req[r2].isMapChange )
      => Abs(req[r1].now - req[r2].now)
           >= ( IF req[r1].isMapChange THEN MAP_CHANGE_API_INTERVAL
                                       ELSE API_CALL_INTERVAL )

\* C30: a token that a grant has stored is not cleared by the failure of a
\* grant request, nor by a 401 answer to an upstream request, that was
\* issued before the token was stored.  At one instant of the clock a
\* grant is requested only while the cache is empty, and an upstream
\* request carries the token the cache held when it was sent, so a cached
\* token that a waiting grant finds, or that differs from the token of a
\* waiting upstream request, was stored after that request was issued.
C30_LateFailureKeepsNewerToken ==
  [][ \A r \in Slots :
        /\ ( /\ \E failure \in GrantFailures : TokenGrantFailed(r, failure)
             /\ tokenCache.token # NO_TOKEN )
             => tokenCache' = tokenCache
        /\ ( /\ UpstreamUnauthorized(r)
             /\ tokenCache.token \notin {NO_TOKEN, req[r].accessToken} )
             => tokenCache' = tokenCache ]_vars

\* C31: a flight in a /api/check-flights response has inRegion true and
\* lies in the circle of the region that is stored when the handler
\* verifies it after the record lookup; a flight that the region, replaced
\* during the lookup, no longer contains is answered as null.
C31_CheckFlightVerified ==
  ( resp.kind = "check" /\ resp.pc = "done" )
    => /\ resp.flight # NULL
            => /\ resp.flight.inRegion = TRUE
               /\ InCircle(resp.flight, MONITORING_REGION)
       /\ ( resp.picked # NULL /\ ~InCircle(resp.picked, MONITORING_REGION) )
            => resp.flight = NULL

\* the flight that processFlights picked is answered as null, because the
\* region was replaced while its record lookup was pending
C31_Witness ==
  /\ resp.kind = "check" /\ resp.pc = "done"
  /\ resp.picked # NULL /\ resp.picked.inRegion = TRUE
  /\ ~InCircle(resp.picked, MONITORING_REGION)
  /\ resp.flight = NULL

\* C32: every flight of a /api/map-flights response, one served from the
\* snapshot included, carries an inRegion flag equal to the circle test of
\* its position against the region stored when the response is built.
C32_FlagsOfStoredRegion ==
  ( resp.kind = "map" /\ resp.pc = "done" )
    => \A i \in 1..Len(resp.flights) :
         resp.flights[i].inRegion = InCircle(resp.flights[i], MONITORING_REGION)

\* C33: with the chime enabled, the client polling every 5 seconds and an
\* aircraft that every upstream answer reports inside the region, playChime
\* is called exactly once, at the first detection, however many gate-denied
\* polls answer flight null in between.
C33_ChimeOnce ==
  client.chimeEnabled
    => client.chimes = IF client.detections > 0 THEN 1 ELSE 0

\* C34: the snapshot cache changes only in the step that finishes a
\* /api/map-flights request whose upstream fetch succeeded; a denied or
\* failing /api/map-flights request, every /api/check-flights request and
\* every region or rate-limit request leave its flights, bounds and
\* timestamp as they were.
C34_SnapshotWrittenByMapSuccess ==
  [][ lastFlightsCache' # lastFlightsCache
        => ( resp'.kind = "map" /\ resp'.pc = "done"
             /\ resp'.fetched = "states" ) ]_vars

\* a /api/check-flights request fetched the feed after the snapshot was
\* stored, and the snapshot still carries its earlier timestamp
C34_Witness ==
  /\ resp.kind = "check" /\ resp.pc = "done" /\ resp.fetched = "states"
  /\ lastFlightsCache.timestamp # 0
  /\ lastFlightsCache.timestamp < resp.now

\* a failing lookup returns null without another request to the store and
\* leaves the record cache as it was
FailureLeavesCache ==
  (\E i \in 1..Len(lookups) : StoreFailed(i))
    => /\ aircraftRecordCache' = aircraftRecordCache
       /\ looked'.step = "error"
       /\ looked'.value = NULL
       /\ looked'.storeRequests = 0
       /\ Len(lookups') = Len(lookups) - 1

\* the step is the lookup of the key whose lookup has just failed
LookupAfterFailure ==
  /\ looked.step = "error"
  /\ looked'.key = looked.key
  /\ looked'.step \in {"hit", "get"}

\* C35 as stated: a lookup whose store read or parse fails returns null and
\* leaves the record cache unchanged, the store request is not repeated
\* within it, and the next lookup of the same key issues a new request to
\* the store.
C35_FailedLookupRetried ==
  [][ /\ FailureLeavesCache
      /\ LookupAfterFailure
           => ( looked'.step = "get" /\ looked'.storeRequests = 1 ) ]_vars

\* C35: a lookup whose store read or parse fails returns null and leaves
\* the record cache unchanged, the store request is not repeated within it,
\* and the next lookup of the same key issues a new request to the store
\* unless the cache holds a fresh entry of the key, which another lookup of
\* the same key has stored.
C35_FailedLookupNotCached ==
  [][ /\ FailureLeavesCache
      /\ ( LookupAfterFailure /\ ~FreshEntry(looked.key) )
           => ( looked'.step = "get" /\ looked'.storeRequests = 1 ) ]_vars

\* a lookup has failed for a key whose expired entry is still in the cache,
\* as old as it was
C35_Witness ==
  /\ looked.step = "error"
  /\ looked.key \in CacheKeys(aircraftRecordCache)
  /\ ~FreshEntry(looked.key)

\* C36: in every state the token cache holds no token exactly when its
\* expiresAt is 0, and every step that changes the cache either empties it
\* or stores the token that the token endpoint has just answered to a
\* request, with an expiresAt of that request's getAccessToken start time
\* plus 30 minutes, which is not later than 30 minutes after the grant.
C36_TokenCacheConsistent ==
  /\ [] ( tokenCache.token = NO_TOKEN <=> tokenCache.expiresAt = 0 )
  /\ [][ tokenCache' # tokenCache
           => \/ tokenCache' = [token |-> NO_TOKEN, expiresAt |-> 0]
              \/ \E r \in Slots :
                   /\ req[r].pc \in {"awaitToken", "awaitToken2"}
                   /\ req'[r].pc \in {"awaitUpstream", "awaitRetry"}
                   /\ tokenCache'.token = req'[r].accessToken
                   /\ tokenCache'.token # NO_TOKEN
                   /\ tokenCache'.expiresAt
                        = req[r].tokenNow + 30 * 60 * 1000
                   /\ tokenCache'.expiresAt <= now + 30 * 60 * 1000 ]_vars

\* the cache holds the token granted to a request whose getAccessToken
\* started before the grant arrived, while another request that started
\* getAccessToken at a different instant still waits for its grant
C36_Witness ==
  \E r1, r2 \in Slots :
    /\ req[r1].pc = "awaitUpstream" /\ ~req[r1].usedCachedToken
    /\ req[r1].tokenNow < now
    /\ tokenCache.token = req[r1].accessToken
    /\ tokenCache.expiresAt = req[r1].tokenNow + 30 * 60 * 1000
    /\ req[r2].pc = "awaitToken"
    /\ req[r2].tokenNow # req[r1].tokenNow

\* the aircraft of the reports of a list whose on-ground flag is true
GroundIds(flights) ==
  { flights[i].icao24 : i \in { j \in 1..Len(flights) : ~Airborne(flights[j]) } }

\* the list without its on-ground reports
AirborneOnly(flights) == SelectSeq(flights, Airborne)

\* C37: no report whose on-ground flag is true appears in what the filters
\* make of a fresh upstream list, neither as the flight of processFlights
\* nor among the flights of processMultipleFlights, and the on-ground
\* reports do not count toward maxFlights: the result is the one for the
\* list without them.
C37_GroundReportsIgnored ==
  /\ filterCall.called = "processFlights"
       => /\ filterCall.flight # NULL
               => filterCall.flight.icao24 \notin GroundIds(filterCall.flights)
          /\ filterCall.flight
               = processFlights(AirborneOnly(filterCall.flights),
                                MONITORING_REGION)
  /\ filterCall.called = "processMultipleFlights"
       => /\ \A i \in 1..Len(filterCall.selected) :
               filterCall.selected[i].icao24
                 \notin GroundIds(filterCall.flights)
          /\ filterCall.selected
               = processMultipleFlights(AirborneOnly(filterCall.flights),
                                        filterCall.maxFlights,
                                        filterCall.bounds, MONITORING_REGION)

\* an on-ground report inside the bounds comes first in a list of three and
\* the two airborne reports after it fill a page of two
C37_Witness ==
  /\ filterCall.called = "processMultipleFlights"
  /\ Len(filterCall.flights) = 3
  /\ filterCall.flights[1].onGround = TRUE
  /\ filterCall.bounds # NULL
  /\ isPointInBounds(filterCall.flights[1].latitude,
                     filterCall.flights[1].longitude, filterCall.bounds)
  /\ filterCall.maxFlights = 2
  /\ Len(filterCall.selected) = 2

====
